---- MODULE Spec2Model ----
(***************************************************************************)
(* AegisFS: the journaled metadata engine (common/journal.py,              *)
(* common/metadata_store.py, mds/state.py), the MDS RPC server             *)
(* (mds/server.py), the DataNode block store (datanode/storage.py,         *)
(* datanode/server.py) and the client (client/fs_client.py).               *)
(*                                                                         *)
(* Specifications:                                                         *)
(*   SpecRecovery  an arbitrary journal file is on disk; one MDS start-up  *)
(*                 (MDSState.from_config) runs over it.                    *)
(*   SpecSeq       one caller uses MDSState.put_metadata/delete_metadata   *)
(*                 one call at a time; the process may stop at any step,   *)
(*                 the snapshot may be deleted, the MDS may be restarted.  *)
(*   Spec          the MDS server: handler threads run handle_client in    *)
(*                 parallel over one shared MDSState.                      *)
(*   SpecDNSingle  the DataNode block store with readers and deleters in   *)
(*                 parallel, at most one write_block per block at a time.  *)
(*   SpecDN        the DataNode server: store_block and read_block of one  *)
(*                 block on parallel connections.                          *)
(*   SpecDNSeq     one caller of DataNodeStorage, one call at a time.      *)
(*   SpecTorn      SpecSeq with the process stopping inside an append.     *)
(*   SpecFail      SpecSeq with appends to the journal that fail.          *)
(*   SpecTx        put_metadata/delete_metadata called by threads in       *)
(*                 parallel, with stops and restarts.                      *)
(*   SpecClient    one AegisClient (client/fs_client.py, client/cli.py,    *)
(*                 app.py) against a running MDS and DataNode.             *)
(*   SpecRpc       one client sends one request at a time to the MDS       *)
(*                 server or to the DataNode server.                       *)
(*   SpecRead      a second AegisClient calls read_file while the first    *)
(*                 calls write_file, each on its own connections.          *)
(***************************************************************************)
EXTENDS Integers, Sequences, FiniteSets, TLC

\* ------------------------------------------------------------------ bounds
\* Longest journal file SpecRecovery starts from.
MaxJournalLen == 4
\* Largest txid Journal.new_txid hands out in SpecSeq.
MaxTxid == 3
\* Largest txid Journal.new_txid hands out in Spec.
MaxServerTxid == 2
\* Handler threads of the MDS server.
NumHandlers == 2
\* MDS start-ups SpecSeq follows.
MaxBoots == 3
\* Handler threads of the DataNode server.
NumDnThreads == 2

Paths  == {"/a", "/b"}
Values == {"A", "B"}
\* Python None / JSON null / a field a payload does not carry.
Null == "null"

Handlers == 1 .. NumHandlers

VARIABLES
    jfileExists,   \* cfg.journal_file exists
    jfile,         \* its records in file order (Journal.append)
    snapExists,    \* cfg.metadata_file exists
    snap,          \* the snapshot written by MetadataStore.save
    meta,          \* MetadataStore._meta of the running MDS
    next_txid,     \* Journal._next_txid of the running MDS
    mdsUp,         \* an MDSState has been constructed and the process runs
    pc,            \* per thread: position in handle_client / put_metadata
    req,           \* per thread: the request (op, path, value)
    txid,          \* per thread: the local txid of put_metadata
    loaded,        \* per thread: the _next_txid that "+= 1" has read
    resp,          \* per thread: the response built by handle_request
    lastOk,        \* history: path -> value of the last returned mutation
    boots,         \* history: number of MDS start-ups so far
    journalOnly,   \* history: the last start-up found no snapshot file
    dir,           \* DataNode data_dir: file name -> inode (0: no such file)
    ino,           \* inode -> the bytes of the file
    dpc,           \* per DataNode thread: position in write/read/delete_block
    dreq,          \* per DataNode thread: the call (op, block_id, data)
    dfd,           \* per DataNode thread: the inode of its open file (0: none)
    dpos,          \* per DataNode thread: the offset of its open file
    dres,          \* per DataNode thread: what the call returned
    seen,          \* history: per reader, what the block held during the read
    lastPut,       \* history: block id -> what its last returned write/delete left
    cpc,           \* the client: position in its call
    creq,          \* the client: the call (op, path, arg)
    cblock,        \* the client: the local block_id of write_file / read_file
    cres,          \* the client: what the call returned or raised
    drawn,         \* history: the block ids uuid4 has handed out
    atCall,        \* history: the MDS store and journal when the call began
    written,       \* history: path -> the bytes of its last returned write_file
    reader         \* a second client: its read_file call (pc, path, res), and
                   \* history: the contents the path had while the call ran

mdsVars == <<jfileExists, jfile, snapExists, snap, meta, next_txid, mdsUp>>
thrVars == <<pc, req, txid, loaded, resp>>
histVars == <<lastOk, boots, journalOnly>>
dnVars == <<dir, ino, dpc, dreq, dfd, dpos, dres, seen, lastPut>>
clVars == <<cpc, creq, cblock, cres, drawn, atCall, written, reader>>
vars == <<jfileExists, jfile, snapExists, snap, meta, next_txid, mdsUp,
          pc, req, txid, loaded, resp, lastOk, boots, journalOnly,
          dir, ino, dpc, dreq, dfd, dpos, dres, seen, lastPut,
          cpc, creq, cblock, cres, drawn, atCall, written, reader>>

\* ------------------------------------------------------- journal records
\* The data payload is flattened to (action, key, value); a field the
\* payload does not carry is Null.
JournalRecord(t, op, action, key, value) ==
    [txid |-> t, op |-> op, action |-> action, key |-> key, value |-> value]

BeginRecord(t, opname, path) == JournalRecord(t, "BEGIN", opname, path, Null)

ApplyRecord(t, action, key, value) == JournalRecord(t, "APPLY", action, key, value)

CommitRecord(t) == JournalRecord(t, "COMMIT", Null, Null, Null)

AbortRecord(t) == JournalRecord(t, "ABORT", Null, Null, Null)

\* Journal.iter_records: the records in file order, none for a missing file.
iter_records(exists, file) == IF exists THEN file ELSE <<>>

\* An append that writes the line in front of the file's content.
append_front(file, rec) == <<rec>> \o file

\* Journal.append: opens the file in "a" mode (creating it) and writes a line.
append(file, rec) == Append(file, rec)

\* The line a stopped f.write(line + "\n") left partly on disk: no JSON.
TornLine == [txid |-> 0, op |-> "torn", action |-> Null, key |-> Null, value |-> Null]

\* iter_records: json.loads(line) raises json.JSONDecodeError on a line
\* that is no JSON.
iter_records_raises(exists, file) ==
    exists /\ \E i \in DOMAIN file : file[i].op = "torn"

\* ------------------------------------------------------- Journal.__init__
\* A scan that looks at BEGIN records only.
RECURSIVE ScanMaxTxidBeginOnly(_, _)
ScanMaxTxidBeginOnly(recs, max_txid) ==
    IF recs = <<>> THEN max_txid
    ELSE ScanMaxTxidBeginOnly(Tail(recs),
            IF Head(recs).op = "BEGIN" /\ Head(recs).txid > max_txid
            THEN Head(recs).txid ELSE max_txid)

\* max_txid = max(max_txid, rec.txid) over every record of the file.
RECURSIVE ScanMaxTxid(_, _)
ScanMaxTxid(recs, max_txid) ==
    IF recs = <<>> THEN max_txid
    ELSE ScanMaxTxid(Tail(recs),
                     IF Head(recs).txid > max_txid THEN Head(recs).txid ELSE max_txid)

\* Journal._init_txid_from_disk, as the value of _next_txid it leaves.
init_txid_from_disk(exists, file) ==
    IF ~exists THEN 1
    ELSE ScanMaxTxid(iter_records(exists, file), 0) + 1

\* ------------------------------------------------------- MetadataStore
EmptyMeta == [k \in {} |-> Null]

store_put(m, key, value) ==
    [k \in DOMAIN m \cup {key} |-> IF k = key THEN value ELSE m[k]]

store_delete(m, key) ==
    IF key \in DOMAIN m THEN [k \in DOMAIN m \ {key} |-> m[k]] ELSE m

store_get(m, key) == IF key \in DOMAIN m THEN m[key] ELSE Null

\* ------------------------------------------- MDSState.recover_from_journal
\* tx_applies[t]: the APPLY payloads of txid t, in file order.
tx_applies(recs, t) == SelectSeq(recs, LAMBDA r : r.op = "APPLY" /\ r.txid = t)

committed(recs) == {recs[i].txid : i \in {j \in DOMAIN recs : recs[j].op = "COMMIT"}}

aborted(recs) == {recs[i].txid : i \in {j \in DOMAIN recs : recs[j].op = "ABORT"}}

\* A set of integers as a sequence, descending.
RECURSIVE sortedDescending(_)
sortedDescending(S) ==
    IF S = {} THEN <<>>
    ELSE LET m == CHOOSE x \in S : \A y \in S : x >= y
         IN <<m>> \o sortedDescending(S \ {m})

\* sorted(S) of a set of integers, ascending.
RECURSIVE sorted(_)
sorted(S) ==
    IF S = {} THEN <<>>
    ELSE LET m == CHOOSE x \in S : \A y \in S : x <= y
         IN <<m>> \o sorted(S \ {m})

\* Replaying every committed txid, aborted or not.
EligibleIgnoringAbort(recs) == committed(recs)

\* Replaying every txid that logged an APPLY and no ABORT, committed or not.
EligibleIgnoringCommit(recs) ==
    {recs[i].txid : i \in {j \in DOMAIN recs : recs[j].op = "APPLY"}} \ aborted(recs)

\* committed - aborted
Eligible(recs) == committed(recs) \ aborted(recs)

\* for txid in sorted(committed - aborted)
ReplayOrder(recs) == sorted(Eligible(recs))

\* for act in tx_applies.get(txid, []): put / delete / anything else ignored
RECURSIVE ApplyActs(_, _)
ApplyActs(m, acts) ==
    IF acts = <<>> THEN m
    ELSE LET act == Head(acts)
             m2 == IF act.action = "put" THEN store_put(m, act.key, act.value)
                   ELSE IF act.action = "delete" THEN store_delete(m, act.key)
                   ELSE m
         IN ApplyActs(m2, Tail(acts))

RECURSIVE ReplayTxids(_, _, _)
ReplayTxids(m, txids, recs) ==
    IF txids = <<>> THEN m
    ELSE ReplayTxids(ApplyActs(m, tx_applies(recs, Head(txids))), Tail(txids), recs)

\* The mapping recover_from_journal leaves in store._meta.
recover_meta(exists, file) ==
    LET recs == iter_records(exists, file)
    IN ReplayTxids(EmptyMeta, ReplayOrder(recs), recs)

\* ------------------------------------------------------- DataNode state
BlockIds == {"b1", "b2"}

\* The block contents a caller stores: byte strings of two bytes, written
\* to the file one byte at a time.
Datas == {<<1, 2>>, <<3, 4>>}

DnThreads == 1 .. NumDnThreads

\* The block the calls that run in parallel address.
SharedBlocks == {"b1"}

\* A block_path that leaves the block id out of the file name.
block_path_shared(b) == <<"blk", "b1">>

\* DataNodeStorage.block_path: <data_dir>/<block_id>.blk
block_path(b) == <<"blk", b>>

\* The temporary file written in place of the block file itself.
tmp_path_in_place(b) == <<"blk", b>>

\* path.with_suffix(".blk.tmp"): <data_dir>/<block_id>.blk.tmp
tmp_path(b) == <<"tmp", b>>

FileNames == {<<"blk", b>> : b \in BlockIds} \cup {<<"tmp", b>> : b \in BlockIds}

\* Enough inodes for every name and every open file.
Inodes == 1 .. (2 * Cardinality(BlockIds) + NumDnThreads)

\* What a call returns, and what a block holds: no file, or its bytes.
Absent == <<"absent">>

Bytes(content) == <<"bytes", content>>

Returned(what) == <<what>>

NoCall == [op |-> Null, block_id |-> Null, data |-> <<>>]

\* DataNodeStorage.__init__ on an empty data_dir; no call in progress.
DnInit ==
    /\ dir = [n \in FileNames |-> 0]
    /\ ino = [i \in Inodes |-> <<>>]
    /\ dpc = [t \in DnThreads |-> "idle"]
    /\ dreq = [t \in DnThreads |-> NoCall]
    /\ dfd = [t \in DnThreads |-> 0]
    /\ dpos = [t \in DnThreads |-> 0]
    /\ dres = [t \in DnThreads |-> Returned("none")]
    /\ seen = [t \in DnThreads |-> {}]
    /\ lastPut = [b \in BlockIds |-> Absent]

\* ---------------------------------------------------------- client state
\* The text a caller hands to write_file: a sequence of code points (""
\* and "\u00e9").
Texts == {<<>>, <<233>>}

\* The bytes a caller hands to store_block or write_bytes: "A", and 0xFF,
\* which is no UTF-8.
ByteStrings == {<<65>>, <<255>>}

NoClientCall == [op |-> Null, path |-> Null, arg |-> <<>>]

\* What a client call returned: nothing yet, None, a str, or an exception.
NoResult == [kind |-> "none", text |-> <<>>, error |-> Null]

ReturnedNone == [kind |-> "None", text |-> <<>>, error |-> Null]

ReturnedStr(text) == [kind |-> "str", text |-> text, error |-> Null]

Raised(e) == [kind |-> "raised", text |-> <<>>, error |-> e]

\* The second client has made no call.
NoReader == [pc |-> "idle", path |-> Null, ok |-> {}, res |-> NoResult]

\* AegisClient.__init__; no call made yet.
ClInit ==
    /\ cpc = "idle"
    /\ creq = NoClientCall
    /\ cblock = Null
    /\ cres = NoResult
    /\ drawn = {}
    /\ atCall = <<EmptyMeta, <<>>>>
    /\ written = EmptyMeta
    /\ reader = NoReader

\* ------------------------------------------------------------ start-up
\* A start-up whose recovery does not end with store.save().
from_config_without_save ==
    /\ ~mdsUp
    /\ boots < MaxBoots
    /\ boots' = boots + 1
    /\ IF iter_records_raises(jfileExists, jfile)
       THEN UNCHANGED <<next_txid, meta, mdsUp, journalOnly>>
       ELSE /\ next_txid' = init_txid_from_disk(jfileExists, jfile)
            /\ meta' = recover_meta(jfileExists, jfile)
            /\ mdsUp' = TRUE
            /\ journalOnly' = ~snapExists
    /\ UNCHANGED <<jfileExists, jfile, snap, snapExists, thrVars, lastOk>>
    /\ UNCHANGED <<dnVars, clVars>>

\* MDSState.from_config: Journal(cfg.journal_file), MetadataStore(...),
\* recover_from_journal (which ends with store.save()).  Journal.__init__
\* reads the file through iter_records: where that raises, the start-up
\* ends with the exception and no MDS runs.
from_config ==
    /\ ~mdsUp
    /\ boots < MaxBoots
    /\ boots' = boots + 1
    /\ IF iter_records_raises(jfileExists, jfile)
       THEN UNCHANGED <<next_txid, meta, snap, snapExists, mdsUp, journalOnly>>
       ELSE /\ next_txid' = init_txid_from_disk(jfileExists, jfile)
            /\ meta' = recover_meta(jfileExists, jfile)
            /\ snap' = recover_meta(jfileExists, jfile)
            /\ snapExists' = TRUE
            /\ mdsUp' = TRUE
            /\ journalOnly' = ~snapExists
    /\ UNCHANGED <<jfileExists, jfile, thrVars, lastOk>>
    /\ UNCHANGED <<dnVars, clVars>>

\* ------------------------------------------------------------ SpecRecovery
\* Every record a journal line can hold over the bounded txids and payloads.
\* The txids its records carry: two transactions, whose records interleave
\* in any order.
JournalTxids == {1, 2}

\* The APPLY payloads of those records.
AnyPayload ==
    {<<"put", k, v>> : k \in Paths, v \in Values} \cup {<<"delete", k, Null>> : k \in Paths}

AnyRecord ==
    {BeginRecord(t, "put", "/a") : t \in JournalTxids}
    \cup {CommitRecord(t) : t \in JournalTxids}
    \cup {AbortRecord(t) : t \in JournalTxids}
    \cup {ApplyRecord(t, a[1], a[2], a[3]) : t \in JournalTxids, a \in AnyPayload}

ThreadsIdle ==
    /\ pc = [t \in Handlers |-> "idle"]
    /\ req = [t \in Handlers |-> [op |-> Null, path |-> Null, value |-> Null]]
    /\ txid = [t \in Handlers |-> 0]
    /\ loaded = [t \in Handlers |-> 0]
    /\ resp = [t \in Handlers |-> [ok |-> Null, value |-> Null, error |-> Null]]

InitRecovery ==
    /\ jfileExists \in BOOLEAN
    /\ jfile = <<>>
    /\ snapExists = FALSE
    /\ snap = EmptyMeta
    /\ meta = EmptyMeta
    /\ next_txid = 0
    /\ mdsUp = FALSE
    /\ ThreadsIdle
    /\ lastOk = EmptyMeta
    /\ boots = 0
    /\ journalOnly = FALSE
    /\ DnInit
    /\ ClInit

\* Before the start-up: an earlier writer of the file appends any record
\* (Journal.append through begin / apply / commit / abort with any txid).
append_any ==
    /\ ~mdsUp
    /\ Len(jfile) < MaxJournalLen
    /\ \E rec \in AnyRecord :
          /\ jfile' = append(jfile, rec)
          /\ jfileExists' = TRUE
    /\ UNCHANGED <<snapExists, snap, meta, next_txid, mdsUp, thrVars, histVars>>
    /\ UNCHANGED <<dnVars, clVars>>

\* Journal.begin called on the recovered state's journal: the first txid
\* the new process hands out, logged as a BEGIN record.
first_begin ==
    /\ mdsUp
    /\ Len(jfile) < MaxJournalLen
    /\ \E p \in Paths :
          /\ jfile' = append(jfile, BeginRecord(next_txid, "put", p))
          /\ jfileExists' = TRUE
          /\ next_txid' = next_txid + 1
    /\ UNCHANGED <<snapExists, snap, meta, mdsUp, thrVars, histVars>>
    /\ UNCHANGED <<dnVars, clVars>>

NextRecovery == append_any \/ from_config \/ first_begin

SpecRecovery == InitRecovery /\ [][NextRecovery]_vars

\* ------------------------------------------- put_metadata / delete_metadata
\* The thread positions of one journaled mutation, statement by statement:
\*   "begin"      new_txid: txid = self._next_txid
\*   "bump_load"  new_txid: self._next_txid += 1, the read
\*   "bump_store" new_txid: self._next_txid += 1, the write
\*   "log_begin"  journal.begin: self.append(BEGIN)
\*   "log_apply"  journal.apply(txid, {...})
\*   "mutate"     store.put(path, value) / store.delete(path)
\*   "save"       store.save()
\*   "commit"     journal.commit(txid)
NoReq == [op |-> Null, path |-> Null, value |-> Null]

NoResp == [ok |-> Null, value |-> Null, error |-> Null]

Request(op, path, value) == [op |-> op, path |-> path, value |-> value]

\* The mutation a request runs: put_meta calls put_metadata.
IsPut(r) == r.op \in {"put_meta", "put_metadata"}

\* The transactions begun so far: those with a BEGIN record, and those of
\* the threads that have not logged theirs yet.  It bounds the requests.
TxStarted ==
    Cardinality({i \in DOMAIN jfile : jfile[i].op = "BEGIN"})
    + Cardinality({t \in Handlers : pc[t] \in {"begin", "bump_load", "bump_store", "log_begin"}})

\* Journal.new_txid: txid = self._next_txid
new_txid_read(t) ==
    /\ mdsUp
    /\ pc[t] = "begin"
    /\ txid' = [txid EXCEPT ![t] = next_txid]
    /\ pc' = [pc EXCEPT ![t] = "bump_load"]
    /\ UNCHANGED <<mdsVars, req, loaded, resp, histVars>>
    /\ UNCHANGED <<dnVars, clVars>>

\* self._next_txid += 1 reads the attribute ...
new_txid_load(t) ==
    /\ mdsUp
    /\ pc[t] = "bump_load"
    /\ loaded' = [loaded EXCEPT ![t] = next_txid]
    /\ pc' = [pc EXCEPT ![t] = "bump_store"]
    /\ UNCHANGED <<mdsVars, req, txid, resp, histVars>>
    /\ UNCHANGED <<dnVars, clVars>>

\* ... and stores the sum; return txid
new_txid_store(t) ==
    /\ mdsUp
    /\ pc[t] = "bump_store"
    /\ next_txid' = loaded[t] + 1
    /\ loaded' = [loaded EXCEPT ![t] = 0]
    /\ pc' = [pc EXCEPT ![t] = "log_begin"]
    /\ UNCHANGED <<jfileExists, jfile, snapExists, snap, meta, mdsUp, req, txid, resp, histVars>>
    /\ UNCHANGED <<dnVars, clVars>>

\* Journal.new_txid, statement by statement: no lock is held, and a thread
\* switch falls between any two of the reads and the write.
new_txid(t) == new_txid_read(t) \/ new_txid_load(t) \/ new_txid_store(t)

\* Journal.begin: append the BEGIN record
log_begin(t) ==
    /\ mdsUp
    /\ pc[t] = "log_begin"
    /\ jfile' = append(jfile, BeginRecord(txid[t], IF IsPut(req[t]) THEN "put" ELSE "delete",
                                          req[t].path))
    /\ jfileExists' = TRUE
    /\ pc' = [pc EXCEPT ![t] = "log_apply"]
    /\ UNCHANGED <<snapExists, snap, meta, next_txid, mdsUp, req, txid, loaded, resp, histVars>>
    /\ UNCHANGED <<dnVars, clVars>>

\* An apply that logs nothing.
log_apply_nothing(t) ==
    /\ mdsUp
    /\ pc[t] = "log_apply"
    /\ pc' = [pc EXCEPT ![t] = "mutate"]
    /\ UNCHANGED <<mdsVars, req, txid, loaded, resp, histVars>>
    /\ UNCHANGED <<dnVars, clVars>>

\* Journal.apply: append the APPLY record
log_apply(t) ==
    /\ mdsUp
    /\ pc[t] = "log_apply"
    /\ jfile' = append(jfile,
                       IF IsPut(req[t])
                       THEN ApplyRecord(txid[t], "put", req[t].path, req[t].value)
                       ELSE ApplyRecord(txid[t], "delete", req[t].path, Null))
    /\ jfileExists' = TRUE
    /\ pc' = [pc EXCEPT ![t] = "mutate"]
    /\ UNCHANGED <<snapExists, snap, meta, next_txid, mdsUp, req, txid, loaded, resp, histVars>>
    /\ UNCHANGED <<dnVars, clVars>>

\* self.store.put(path, value) / self.store.delete(path)
mutate(t) ==
    /\ mdsUp
    /\ pc[t] = "mutate"
    /\ meta' = IF IsPut(req[t]) THEN store_put(meta, req[t].path, req[t].value)
               ELSE store_delete(meta, req[t].path)
    /\ pc' = [pc EXCEPT ![t] = "save"]
    /\ UNCHANGED <<jfileExists, jfile, snapExists, snap, next_txid, mdsUp, req, txid, loaded, resp,
                   histVars>>
    /\ UNCHANGED <<dnVars, clVars>>

\* A save that writes nothing.
save_nothing(t) ==
    /\ mdsUp
    /\ pc[t] = "save"
    /\ pc' = [pc EXCEPT ![t] = "commit"]
    /\ UNCHANGED <<mdsVars, req, txid, loaded, resp, histVars>>
    /\ UNCHANGED <<dnVars, clVars>>

\* MetadataStore.save: the whole mapping is written to the snapshot file
save(t) ==
    /\ mdsUp
    /\ pc[t] = "save"
    /\ snap' = meta
    /\ snapExists' = TRUE
    /\ pc' = [pc EXCEPT ![t] = "commit"]
    /\ UNCHANGED <<jfileExists, jfile, meta, next_txid, mdsUp, req, txid, loaded, resp, histVars>>
    /\ UNCHANGED <<dnVars, clVars>>

\* A commit whose record never reaches the file.
CommitAppendLost(file, t) == file

\* The record journal.commit(txid) appends.
CommitAppend(file, t) == append(file, CommitRecord(t))

\* Journal.commit, the last statement of the mutation: the call returns.  A
\* direct caller is back at "idle"; the server's handle_request builds
\* {"ok": True} and goes on to send it.
commit(t) ==
    /\ mdsUp
    /\ pc[t] = "commit"
    /\ jfile' = CommitAppend(jfile, txid[t])
    /\ jfileExists' = TRUE
    /\ IF req[t].op = "put_meta"
       THEN /\ resp' = [resp EXCEPT ![t] = [ok |-> TRUE, value |-> Null, error |-> Null]]
            /\ pc' = [pc EXCEPT ![t] = "send"]
            /\ UNCHANGED lastOk
       ELSE /\ resp' = resp
            /\ pc' = [pc EXCEPT ![t] = "idle"]
            /\ lastOk' = IF IsPut(req[t]) THEN store_put(lastOk, req[t].path, req[t].value)
                         ELSE store_delete(lastOk, req[t].path)
    /\ UNCHANGED <<snapExists, snap, meta, next_txid, mdsUp, req, txid, loaded, boots, journalOnly>>
    /\ UNCHANGED <<dnVars, clVars>>

\* One step of the mutation thread t runs.
mutation_step(t) ==
    \/ new_txid(t)
    \/ log_begin(t)
    \/ log_apply(t)
    \/ mutate(t)
    \/ save(t)
    \/ commit(t)

\* ------------------------------------------------------------ SpecSeq
\* A fresh directory: no journal, no snapshot, no MDS running.
MdsFresh ==
    /\ jfileExists = FALSE
    /\ jfile = <<>>
    /\ snapExists = FALSE
    /\ snap = EmptyMeta
    /\ meta = EmptyMeta
    /\ next_txid = 0
    /\ mdsUp = FALSE
    /\ ThreadsIdle
    /\ lastOk = EmptyMeta
    /\ boots = 0
    /\ journalOnly = FALSE

InitFresh == MdsFresh /\ DnInit /\ ClInit

\* The one caller of SpecSeq.
Caller == 1

\* state.put_metadata(path, value) is called.
call_put_metadata ==
    /\ mdsUp
    /\ pc[Caller] = "idle"
    /\ next_txid <= MaxTxid
    /\ \E p \in Paths, v \in Values :
          req' = [req EXCEPT ![Caller] = Request("put_metadata", p, v)]
    /\ pc' = [pc EXCEPT ![Caller] = "begin"]
    /\ UNCHANGED <<mdsVars, txid, loaded, resp, histVars>>
    /\ UNCHANGED <<dnVars, clVars>>

\* state.delete_metadata(path) is called.
call_delete_metadata ==
    /\ mdsUp
    /\ pc[Caller] = "idle"
    /\ next_txid <= MaxTxid
    /\ \E p \in Paths :
          req' = [req EXCEPT ![Caller] = Request("delete_metadata", p, Null)]
    /\ pc' = [pc EXCEPT ![Caller] = "begin"]
    /\ UNCHANGED <<mdsVars, txid, loaded, resp, histVars>>
    /\ UNCHANGED <<dnVars, clVars>>

\* The process stops, at any statement: memory is lost, the files stay.
crash ==
    /\ mdsUp
    /\ mdsUp' = FALSE
    /\ meta' = EmptyMeta
    /\ next_txid' = 0
    /\ pc' = [t \in Handlers |-> "idle"]
    /\ req' = [t \in Handlers |-> NoReq]
    /\ txid' = [t \in Handlers |-> 0]
    /\ loaded' = [t \in Handlers |-> 0]
    /\ resp' = [t \in Handlers |-> NoResp]
    /\ UNCHANGED <<jfileExists, jfile, snapExists, snap, histVars>>
    /\ UNCHANGED <<dnVars, clVars>>

\* cfg.metadata_file.unlink() while no MDS runs.
delete_snapshot ==
    /\ ~mdsUp
    /\ snapExists
    /\ snapExists' = FALSE
    /\ snap' = EmptyMeta
    /\ UNCHANGED <<jfileExists, jfile, meta, next_txid, mdsUp, thrVars, histVars>>
    /\ UNCHANGED <<dnVars, clVars>>

NextSeq ==
    \/ from_config
    \/ call_put_metadata
    \/ call_delete_metadata
    \/ mutation_step(Caller)
    \/ crash
    \/ delete_snapshot

SpecSeq == InitFresh /\ [][NextSeq]_vars

\* ------------------------------------------------------------ SpecTorn
\* The process stops inside Journal.append, between the first and the last
\* byte of f.write(line + "\n"): a part of the line is on disk.
crash_in_append ==
    /\ mdsUp
    /\ pc[Caller] \in {"log_begin", "log_apply", "commit"}
    /\ jfile' = append(jfile, TornLine)
    /\ jfileExists' = TRUE
    /\ mdsUp' = FALSE
    /\ meta' = EmptyMeta
    /\ next_txid' = 0
    /\ pc' = [t \in Handlers |-> "idle"]
    /\ req' = [t \in Handlers |-> NoReq]
    /\ txid' = [t \in Handlers |-> 0]
    /\ loaded' = [t \in Handlers |-> 0]
    /\ resp' = [t \in Handlers |-> NoResp]
    /\ UNCHANGED <<snapExists, snap, histVars>>
    /\ UNCHANGED <<dnVars, clVars>>

\* SpecSeq with the process stopping inside an append as well.
NextTorn ==
    \/ from_config
    \/ call_put_metadata
    \/ call_delete_metadata
    \/ mutation_step(Caller)
    \/ crash
    \/ crash_in_append

SpecTorn == InitFresh /\ [][NextTorn]_vars

\* ---------------------------------------------------------------- SpecFail
\* A failed append that is answered with a rollback: the store and the
\* snapshot are put back and an ABORT record is logged.
append_raises_rollback(t) ==
    /\ mdsUp
    /\ pc[t] \in {"log_begin", "log_apply", "commit"}
    /\ pc' = [pc EXCEPT ![t] = IF req[t].op = "put_meta" THEN "raised" ELSE "idle"]
    /\ meta' = lastOk
    /\ snap' = lastOk
    /\ jfile' = append(jfile, AbortRecord(txid[t]))
    /\ UNCHANGED <<jfileExists, snapExists, next_txid, mdsUp, req, txid, loaded, resp, histVars>>
    /\ UNCHANGED <<dnVars, clVars>>

\* A failed append that finds the store already changed: the mutation is
\* applied in memory before its records are logged.
append_raises_mutated(t) ==
    /\ mdsUp
    /\ pc[t] \in {"log_begin", "log_apply", "commit"}
    /\ pc' = [pc EXCEPT ![t] = IF req[t].op = "put_meta" THEN "raised" ELSE "idle"]
    /\ meta' = IF IsPut(req[t]) THEN store_put(meta, req[t].path, req[t].value)
               ELSE store_delete(meta, req[t].path)
    /\ UNCHANGED <<jfileExists, jfile, snapExists, snap, next_txid, mdsUp>>
    /\ UNCHANGED <<req, txid, loaded, resp, histVars>>
    /\ UNCHANGED <<dnVars, clVars>>

\* Journal.append raises OSError out of path.open or f.write, no line
\* written: the exception leaves begin, apply or commit and then
\* put_metadata / delete_metadata, which catch nothing; no later statement
\* of the mutation runs.  In a handler thread of the server it ends the
\* thread.
append_raises(t) ==
    /\ mdsUp
    /\ pc[t] \in {"log_begin", "log_apply", "commit"}
    /\ pc' = [pc EXCEPT ![t] = IF req[t].op = "put_meta" THEN "raised" ELSE "idle"]
    /\ UNCHANGED <<mdsVars, req, txid, loaded, resp, histVars>>
    /\ UNCHANGED <<dnVars, clVars>>

\* SpecSeq with appends that fail; the snapshot file is left alone.
NextFail ==
    \/ from_config
    \/ call_put_metadata
    \/ call_delete_metadata
    \/ mutation_step(Caller)
    \/ append_raises(Caller)
    \/ crash

SpecFail == InitFresh /\ [][NextFail]_vars

\* ------------------------------------------------------------------ SpecTx
\* The calls the threads of SpecTx make: puts of two values on one path,
\* its delete, and a put on another path.
TxCalls ==
    {Request("put_metadata", "/a", v) : v \in Values}
    \cup {Request("delete_metadata", "/a", Null), Request("put_metadata", "/b", "A")}

\* Thread t calls state.put_metadata(path, value) or
\* state.delete_metadata(path), as the handler threads of the server do.
tx_call(t) ==
    /\ mdsUp
    /\ pc[t] = "idle"
    /\ TxStarted < MaxServerTxid
    /\ \E r \in TxCalls : req' = [req EXCEPT ![t] = r]
    /\ pc' = [pc EXCEPT ![t] = "begin"]
    /\ UNCHANGED <<mdsVars, txid, loaded, resp, histVars>>
    /\ UNCHANGED <<dnVars, clVars>>

\* The threads of SpecTx: two handler threads of the server.
TxThreads == {1, 2}

\* The mutation path of MDSState under two threads that share it with no
\* lock held; the process stops at any statement and is started again.
NextTx ==
    \/ from_config
    \/ crash
    \/ \E t \in TxThreads : tx_call(t) \/ mutation_step(t)

SpecTx == InitFresh /\ [][NextTx]_vars

\* ------------------------------------------------------------ Spec
\* The requests a client sends to the MDS server.
ServerRequests ==
    {Request("ping", Null, Null)}
    \cup {Request("put_meta", p, v) : p \in Paths, v \in Values}
    \cup {Request("get_meta", p, Null) : p \in Paths}
    \cup {Request("delete_meta", "/a", Null)}

\* serve_mds accepts a connection and starts a thread on handle_client, whose
\* conn.recv() returns the request.
accept(t) ==
    /\ mdsUp
    /\ pc[t] \in {"idle", "done"}
    /\ \E r \in ServerRequests :
          /\ r.op = "put_meta" => TxStarted < MaxServerTxid
          /\ req' = [req EXCEPT ![t] = r]
    /\ pc' = [pc EXCEPT ![t] = "handle"]
    /\ txid' = [txid EXCEPT ![t] = 0]
    /\ loaded' = [loaded EXCEPT ![t] = 0]
    /\ resp' = [resp EXCEPT ![t] = NoResp]
    /\ UNCHANGED <<mdsVars, histVars>>
    /\ UNCHANGED <<dnVars, clVars>>

\* handle_request, op == "ping"
handle_ping(t) ==
    /\ pc[t] = "handle"
    /\ req[t].op = "ping"
    /\ resp' = [resp EXCEPT ![t] = [ok |-> TRUE, value |-> "mds_alive", error |-> Null]]
    /\ pc' = [pc EXCEPT ![t] = "send"]
    /\ UNCHANGED <<mdsVars, req, txid, loaded, histVars>>
    /\ UNCHANGED <<dnVars, clVars>>

\* handle_request, op == "put_meta": state.put_metadata(path, value) starts
handle_put_meta(t) ==
    /\ pc[t] = "handle"
    /\ req[t].op = "put_meta"
    /\ req[t].path # Null
    /\ pc' = [pc EXCEPT ![t] = "begin"]
    /\ UNCHANGED <<mdsVars, req, txid, loaded, resp, histVars>>
    /\ UNCHANGED <<dnVars, clVars>>

\* A get_meta that answers null whatever the store holds.
handle_get_meta_null(t) ==
    /\ pc[t] = "handle"
    /\ req[t].op = "get_meta"
    /\ req[t].path # Null
    /\ resp' = [resp EXCEPT ![t] = [ok |-> TRUE, value |-> Null, error |-> Null]]
    /\ pc' = [pc EXCEPT ![t] = "send"]
    /\ UNCHANGED <<mdsVars, req, txid, loaded, histVars>>
    /\ UNCHANGED <<dnVars, clVars>>

\* A get_meta that enters the path it looked up into the store.
handle_get_meta_setdefault(t) ==
    /\ pc[t] = "handle"
    /\ req[t].op = "get_meta"
    /\ req[t].path # Null
    /\ resp' = [resp EXCEPT ![t] =
                   [ok |-> TRUE, value |-> store_get(meta, req[t].path), error |-> Null]]
    /\ meta' = store_put(meta, req[t].path, store_get(meta, req[t].path))
    /\ pc' = [pc EXCEPT ![t] = "send"]
    /\ UNCHANGED <<jfileExists, jfile, snapExists, snap, next_txid, mdsUp>>
    /\ UNCHANGED <<req, txid, loaded, histVars>>
    /\ UNCHANGED <<dnVars, clVars>>

\* handle_request, op == "get_meta": value = state.store.get(path)
handle_get_meta(t) ==
    /\ pc[t] = "handle"
    /\ req[t].op = "get_meta"
    /\ req[t].path # Null
    /\ resp' = [resp EXCEPT ![t] =
                   [ok |-> TRUE, value |-> store_get(meta, req[t].path), error |-> Null]]
    /\ pc' = [pc EXCEPT ![t] = "send"]
    /\ UNCHANGED <<mdsVars, req, txid, loaded, histVars>>
    /\ UNCHANGED <<dnVars, clVars>>

\* An answer to an unknown op that leaves the op name out.
handle_unknown_nameless(t) ==
    /\ pc[t] = "handle"
    /\ req[t].op \notin {"ping", "put_meta", "get_meta"}
    /\ resp' = [resp EXCEPT ![t] = [ok |-> FALSE, value |-> Null, error |-> <<"unknown_op">>]]
    /\ pc' = [pc EXCEPT ![t] = "send"]
    /\ UNCHANGED <<mdsVars, req, txid, loaded, histVars>>
    /\ UNCHANGED <<dnVars, clVars>>

\* handle_request, any other op: {"ok": False, "error": f"unknown_op:{op}"}
handle_unknown(t) ==
    /\ pc[t] = "handle"
    /\ req[t].op \notin {"ping", "put_meta", "get_meta"}
    /\ resp' = [resp EXCEPT ![t] =
                   [ok |-> FALSE, value |-> Null, error |-> <<"unknown_op", req[t].op>>]]
    /\ pc' = [pc EXCEPT ![t] = "send"]
    /\ UNCHANGED <<mdsVars, req, txid, loaded, histVars>>
    /\ UNCHANGED <<dnVars, clVars>>

\* conn.send(resp); conn.close(): the thread ends
send(t) ==
    /\ pc[t] = "send"
    /\ pc' = [pc EXCEPT ![t] = "done"]
    /\ UNCHANGED <<mdsVars, req, txid, loaded, resp, histVars>>
    /\ UNCHANGED <<dnVars, clVars>>

handle_client(t) ==
    \/ accept(t)
    \/ handle_ping(t)
    \/ handle_put_meta(t)
    \/ handle_get_meta(t)
    \/ handle_unknown(t)
    \/ mutation_step(t)
    \/ send(t)

Next == from_config \/ \E t \in Handlers : handle_client(t)

Spec == InitFresh /\ [][Next]_vars

\* ------------------------------------------------------- DataNodeStorage
mdsAll == <<mdsVars, thrVars, histVars>>

\* What read_block would find in the block file at this moment.
Holds(d, i, b) == IF d[block_path(b)] = 0 THEN Absent ELSE Bytes(i[d[block_path(b)]])

\* The inodes a name or an open file refers to.
Referenced(d, fds) == {d[n] : n \in FileNames} \cup {fds[t] : t \in DnThreads}

\* An inode no name and no open file refers to is gone.
Reclaim(d, fds, i) == [x \in Inodes |-> IF x \in Referenced(d, fds) THEN i[x] ELSE <<>>]

FreshInode == CHOOSE x \in Inodes : x \notin Referenced(dir, dfd)
                                    /\ \A y \in Inodes : y \notin Referenced(dir, dfd) => x <= y

\* The threads inside write_block of block b.
WritersOf(b) ==
    {t \in DnThreads : dreq[t].op = "write_block" /\ dreq[t].block_id = b
                       /\ dpc[t] \in {"w_open", "w_write", "w_replace"}}

\* A reader of block b notes what the block holds from now on.
Noting(b, what) ==
    [t \in DnThreads |->
        IF dreq[t].op = "read_block" /\ dreq[t].block_id = b
           /\ dpc[t] \in {"r_exists", "r_open", "r_read"}
        THEN seen[t] \cup {what} ELSE seen[t]]

\* Thread t enters write_block(b, d).
enter_write_block(t, b, d) ==
    /\ dpc[t] \in {"idle", "done", "raised"}
    /\ dreq' = [dreq EXCEPT ![t] = [op |-> "write_block", block_id |-> b, data |-> d]]
    /\ dpc' = [dpc EXCEPT ![t] = "w_open"]
    /\ dres' = [dres EXCEPT ![t] = Returned("none")]
    /\ seen' = [seen EXCEPT ![t] = {}]
    /\ UNCHANGED <<dir, ino, dfd, dpos, lastPut>>

\* write_block(block_id, data) is called.
call_write_block(t) ==
    /\ \E b \in SharedBlocks, d \in Datas :
          /\ WritersOf(b) = {}
          /\ enter_write_block(t, b, d)
    /\ UNCHANGED <<mdsAll, clVars>>

\* with tmp_path.open("wb") as f: the file is created, or truncated
w_open(t) ==
    /\ dpc[t] = "w_open"
    /\ LET name == tmp_path(dreq[t].block_id)
           n == IF dir[name] = 0 THEN FreshInode ELSE dir[name]
       IN /\ dir' = [dir EXCEPT ![name] = n]
          /\ ino' = [ino EXCEPT ![n] = <<>>]
          /\ dfd' = [dfd EXCEPT ![t] = n]
    /\ dpos' = [dpos EXCEPT ![t] = 0]
    /\ dpc' = [dpc EXCEPT ![t] = "w_write"]
    /\ UNCHANGED <<dreq, dres, seen, lastPut, mdsAll, clVars>>

\* The bytes of a file after one byte is written at offset pos (a hole
\* below the offset reads as zeros).
WriteAt(content, pos, byte) ==
    [k \in 1 .. (IF Len(content) > pos + 1 THEN Len(content) ELSE pos + 1) |->
        IF k = pos + 1 THEN byte
        ELSE IF k <= Len(content) THEN content[k] ELSE 0]

\* f.write(data); f.flush(): the next byte reaches the file
w_write(t) ==
    /\ dpc[t] = "w_write"
    /\ dpos[t] < Len(dreq[t].data)
    /\ ino' = [ino EXCEPT ![dfd[t]] = WriteAt(ino[dfd[t]], dpos[t], dreq[t].data[dpos[t] + 1])]
    /\ dpos' = [dpos EXCEPT ![t] = dpos[t] + 1]
    /\ UNCHANGED <<dir, dpc, dreq, dfd, dres, seen, lastPut, mdsAll, clVars>>

\* os.fsync(f.fileno()) and the end of the with block: the file is closed
w_close(t) ==
    /\ dpc[t] = "w_write"
    /\ dpos[t] = Len(dreq[t].data)
    /\ dfd' = [dfd EXCEPT ![t] = 0]
    /\ ino' = Reclaim(dir, [dfd EXCEPT ![t] = 0], ino)
    /\ dpos' = [dpos EXCEPT ![t] = 0]
    /\ dpc' = [dpc EXCEPT ![t] = "w_replace"]
    /\ UNCHANGED <<dir, dreq, dres, seen, lastPut, mdsAll, clVars>>

\* tmp_path.replace(path): an atomic rename; FileNotFoundError if the
\* temporary file is gone
w_replace(t) ==
    /\ dpc[t] = "w_replace"
    /\ LET b == dreq[t].block_id
           src == tmp_path(b)
           dst == block_path(b)
       IN IF dir[src] = 0
          THEN /\ dpc' = [dpc EXCEPT ![t] = "raised"]
               /\ dres' = [dres EXCEPT ![t] = Returned("FileNotFoundError")]
               /\ UNCHANGED <<dir, ino, seen, lastPut>>
          ELSE LET d2 == IF src = dst THEN dir
                         ELSE [dir EXCEPT ![dst] = dir[src], ![src] = 0]
               IN /\ dir' = d2
                  /\ ino' = Reclaim(d2, dfd, ino)
                  /\ seen' = IF src = dst THEN seen ELSE Noting(b, Bytes(ino[dir[src]]))
                  /\ lastPut' = [lastPut EXCEPT ![b] = Bytes(dreq[t].data)]
                  /\ dpc' = [dpc EXCEPT ![t] = "done"]
                  /\ dres' = [dres EXCEPT ![t] = Returned("ok")]
    /\ UNCHANGED <<dreq, dfd, dpos, mdsAll, clVars>>

\* Thread t enters read_block(b).
enter_read_block(t, b) ==
    /\ dpc[t] \in {"idle", "done", "raised"}
    /\ dreq' = [dreq EXCEPT ![t] = [op |-> "read_block", block_id |-> b, data |-> <<>>]]
    /\ seen' = [seen EXCEPT ![t] = {Holds(dir, ino, b)}]
    /\ dpc' = [dpc EXCEPT ![t] = "r_exists"]
    /\ dres' = [dres EXCEPT ![t] = Returned("none")]
    /\ UNCHANGED <<dir, ino, dfd, dpos, lastPut>>

\* read_block(block_id) is called.
call_read_block(t) ==
    /\ \E b \in SharedBlocks : enter_read_block(t, b)
    /\ UNCHANGED <<mdsAll, clVars>>

\* if not path.exists(): return None
r_exists(t) ==
    /\ dpc[t] = "r_exists"
    /\ IF dir[block_path(dreq[t].block_id)] = 0
       THEN /\ dpc' = [dpc EXCEPT ![t] = "done"]
            /\ dres' = [dres EXCEPT ![t] = Absent]
       ELSE /\ dpc' = [dpc EXCEPT ![t] = "r_open"]
            /\ dres' = dres
    /\ UNCHANGED <<dir, ino, dreq, dfd, dpos, seen, lastPut, mdsAll, clVars>>

\* path.read_bytes() opens the file; FileNotFoundError if it is gone
r_open(t) ==
    /\ dpc[t] = "r_open"
    /\ IF dir[block_path(dreq[t].block_id)] = 0
       THEN /\ dpc' = [dpc EXCEPT ![t] = "raised"]
            /\ dres' = [dres EXCEPT ![t] = Returned("FileNotFoundError")]
            /\ dfd' = dfd
       ELSE /\ dpc' = [dpc EXCEPT ![t] = "r_read"]
            /\ dres' = dres
            /\ dfd' = [dfd EXCEPT ![t] = dir[block_path(dreq[t].block_id)]]
    /\ UNCHANGED <<dir, ino, dreq, dpos, seen, lastPut, mdsAll, clVars>>

\* path.read_bytes() reads the open file to its end and closes it
r_read(t) ==
    /\ dpc[t] = "r_read"
    /\ dres' = [dres EXCEPT ![t] = Bytes(ino[dfd[t]])]
    /\ dfd' = [dfd EXCEPT ![t] = 0]
    /\ ino' = Reclaim(dir, [dfd EXCEPT ![t] = 0], ino)
    /\ dpc' = [dpc EXCEPT ![t] = "done"]
    /\ UNCHANGED <<dir, dreq, dpos, seen, lastPut, mdsAll, clVars>>

\* A delete_block that lets the FileNotFoundError of unlink() through.
delete_block_strict(t, b) ==
    /\ dpc[t] \in {"idle", "done", "raised"}
    /\ dreq' = [dreq EXCEPT ![t] = [op |-> "delete_block", block_id |-> b, data |-> <<>>]]
    /\ LET d2 == [dir EXCEPT ![block_path(b)] = 0]
       IN /\ dir' = d2
          /\ ino' = Reclaim(d2, dfd, ino)
    /\ seen' = [Noting(b, Absent) EXCEPT ![t] = {}]
    /\ lastPut' = [lastPut EXCEPT ![b] = Absent]
    /\ IF dir[block_path(b)] = 0
       THEN /\ dpc' = [dpc EXCEPT ![t] = "raised"]
            /\ dres' = [dres EXCEPT ![t] = Returned("FileNotFoundError")]
       ELSE /\ dpc' = [dpc EXCEPT ![t] = "done"]
            /\ dres' = [dres EXCEPT ![t] = Returned("ok")]
    /\ UNCHANGED <<dfd, dpos>>

\* delete_block(b) run by thread t: path.unlink(), FileNotFoundError passed
\* over
delete_block_of(t, b) ==
    /\ dpc[t] \in {"idle", "done", "raised"}
    /\ dreq' = [dreq EXCEPT ![t] = [op |-> "delete_block", block_id |-> b, data |-> <<>>]]
    /\ LET d2 == [dir EXCEPT ![block_path(b)] = 0]
       IN /\ dir' = d2
          /\ ino' = Reclaim(d2, dfd, ino)
    /\ seen' = [Noting(b, Absent) EXCEPT ![t] = {}]
    /\ lastPut' = [lastPut EXCEPT ![b] = Absent]
    /\ dpc' = [dpc EXCEPT ![t] = "done"]
    /\ dres' = [dres EXCEPT ![t] = Returned("ok")]
    /\ UNCHANGED <<dfd, dpos>>

\* delete_block(block_id) is called.
delete_block(t) ==
    /\ \E b \in SharedBlocks : delete_block_of(t, b)
    /\ UNCHANGED <<mdsAll, clVars>>

write_block(t) == w_open(t) \/ w_write(t) \/ w_close(t) \/ w_replace(t)

read_block(t) == r_exists(t) \/ r_open(t) \/ r_read(t)

\* ------------------------------------------------------------ SpecDNSingle
\* Any number of reads and deletes in parallel; a write_block of a block
\* starts only while no other write_block of that block is in progress.
NextDNSingle ==
    \E t \in DnThreads :
        \/ call_write_block(t)
        \/ write_block(t)
        \/ call_read_block(t)
        \/ read_block(t)
        \/ delete_block(t)

SpecDNSingle == InitFresh /\ [][NextDNSingle]_vars

\* ------------------------------------------------------------------ SpecDN
\* handle_request, op "store_block", on the thread serve_datanode started
\* for the connection: write_block begins whatever the other threads do.
handle_store_block(t) ==
    /\ \E b \in SharedBlocks, d \in Datas : enter_write_block(t, b, d)
    /\ UNCHANGED <<mdsAll, clVars>>

\* Stores and reads of one block on parallel connections.
NextDN ==
    \E t \in DnThreads :
        \/ handle_store_block(t)
        \/ write_block(t)
        \/ call_read_block(t)
        \/ read_block(t)

SpecDN == InitFresh /\ [][NextDN]_vars

\* ------------------------------------------------------------- AegisClient
\* str.encode("utf-8"), for code points below 2048: one byte below 128,
\* two bytes from there on.
RECURSIVE utf8_encode(_)
utf8_encode(text) ==
    IF text = <<>> THEN <<>>
    ELSE LET c == Head(text)
         IN (IF c < 128 THEN <<c>> ELSE <<192 + (c \div 64), 128 + (c % 64)>>)
            \o utf8_encode(Tail(text))

\* bytes.decode("utf-8") over one- and two-byte sequences: the text, or
\* ok = FALSE where Python raises UnicodeDecodeError.
RECURSIVE utf8_decode(_)
utf8_decode(bytes) ==
    IF bytes = <<>> THEN [ok |-> TRUE, text |-> <<>>]
    ELSE IF bytes[1] < 128
    THEN LET r == utf8_decode(Tail(bytes))
         IN [ok |-> r.ok, text |-> <<bytes[1]>> \o r.text]
    ELSE IF bytes[1] \in 194 .. 223 /\ Len(bytes) >= 2 /\ bytes[2] \in 128 .. 191
    THEN LET r == utf8_decode(Tail(Tail(bytes)))
         IN [ok |-> r.ok, text |-> <<(bytes[1] - 192) * 64 + (bytes[2] - 128)>> \o r.text]
    ELSE [ok |-> FALSE, text |-> <<>>]

\* The handler thread, of the MDS and of the DataNode, that serves the
\* connection of the client's call: the client has one call in progress.
ClientConn == 1

ClientIdle == cpc \in {"idle", "done", "raised"}

\* meta = {"blocks": [...], "size": ...}
FileMeta(blocks, size) == [blocks |-> blocks, size |-> size]

\* The metadata a caller hands to put_meta itself.
DirectMetas == {FileMeta(<<>>, 0), FileMeta(<<"b1", "b2">>, 2)}

\* value is None (JSON null).
IsNone(value) == ToString(value) = ToString(Null)

\* _mds_rpc: conn.send(msg); the MDS starts a handler thread whose
\* conn.recv() returns the request.
mds_rpc(r) ==
    /\ mdsUp
    /\ pc[ClientConn] \in {"idle", "done"}
    /\ req' = [req EXCEPT ![ClientConn] = r]
    /\ pc' = [pc EXCEPT ![ClientConn] = "handle"]
    /\ txid' = [txid EXCEPT ![ClientConn] = 0]
    /\ loaded' = [loaded EXCEPT ![ClientConn] = 0]
    /\ resp' = [resp EXCEPT ![ClientConn] = NoResp]
    /\ UNCHANGED <<mdsVars, histVars>>

\* handle_client's finally: conn.close() on the MDS; the handler thread ends
\* and its locals are gone.
mds_thread_ends ==
    /\ pc' = [pc EXCEPT ![ClientConn] = "idle"]
    /\ req' = [req EXCEPT ![ClientConn] = NoReq]
    /\ txid' = [txid EXCEPT ![ClientConn] = 0]
    /\ loaded' = [loaded EXCEPT ![ClientConn] = 0]
    /\ resp' = [resp EXCEPT ![ClientConn] = NoResp]
    /\ UNCHANGED <<mdsVars, histVars>>

\* The same on the DataNode.
dn_thread_ends ==
    /\ dpc' = [dpc EXCEPT ![ClientConn] = "idle"]
    /\ dreq' = [dreq EXCEPT ![ClientConn] = NoCall]
    /\ dres' = [dres EXCEPT ![ClientConn] = Returned("none")]
    /\ seen' = [seen EXCEPT ![ClientConn] = {}]
    /\ UNCHANGED <<dir, ino, dfd, dpos, lastPut>>

\* store_block from data.decode("utf-8") to conn.send, and the DataNode's
\* handle_request from args["data"].encode("utf-8") to store.write_block.
dn_store_block(b, data) ==
    enter_write_block(ClientConn, b, utf8_encode(utf8_decode(data).text))

\* A read_file of the second client that is in progress on path p notes the
\* content a write_file of p starts to write.
NoteWrite(p, payload) ==
    IF reader.pc \in {"get_meta", "read_block"} /\ reader.path = p
    THEN [reader EXCEPT !.ok = @ \cup {Bytes(payload)}]
    ELSE reader

\* write_file(path, text): block_id = uuid4 id (one no earlier call drew),
\* payload = text.encode("utf-8"), self.store_block(block_id, payload)
call_write_file ==
    /\ ClientIdle
    /\ mdsUp
    /\ next_txid <= MaxServerTxid
    /\ \E p \in Paths, text \in Texts, b \in BlockIds \ drawn :
          /\ creq' = [op |-> "write_file", path |-> p, arg |-> text]
          /\ cblock' = b
          /\ drawn' = drawn \cup {b}
          /\ dn_store_block(b, utf8_encode(text))
          /\ reader' = NoteWrite(p, utf8_encode(text))
    /\ cpc' = "store_block"
    /\ cres' = NoResult
    /\ atCall' = <<meta, jfile>>
    /\ UNCHANGED <<written, mdsAll>>

\* A store_block that goes on whatever became of the request.
StoreBlockUnchecked(t) == dpc[t] \in {"done", "raised"}

\* store_block: conn.recv() returned the DataNode's {"ok": True}.
StoreBlockOk(t) == dpc[t] = "done"

\* _dn_rpc returns to store_block, or raises the EOFError of a connection
\* closed by a handler thread that died; write_file goes on to
\* self.put_meta(path, {"blocks": [block_id], "size": len(payload)}).
store_block_returns ==
    /\ cpc = "store_block"
    /\ dpc[ClientConn] \in {"done", "raised"}
    /\ IF StoreBlockOk(ClientConn)
       THEN IF creq.op = "write_file"
            THEN /\ mds_rpc(Request("put_meta", creq.path,
                                    FileMeta(<<cblock>>, Len(utf8_encode(creq.arg)))))
                 /\ cpc' = "put_meta"
                 /\ cres' = cres
            ELSE /\ cpc' = "done"
                 /\ cres' = ReturnedNone
                 /\ UNCHANGED mdsAll
       ELSE /\ cpc' = "raised"
            /\ cres' = Raised("EOFError")
            /\ UNCHANGED mdsAll
    /\ dn_thread_ends
    /\ UNCHANGED <<creq, cblock, drawn, atCall, written, reader>>

\* put_meta(path, value) called by the user of the client.
call_put_meta ==
    /\ ClientIdle
    /\ next_txid <= MaxServerTxid
    /\ \E p \in Paths, value \in DirectMetas :
          /\ creq' = [op |-> "put_meta", path |-> p, arg |-> <<>>]
          /\ mds_rpc(Request("put_meta", p, value))
          /\ written' = store_delete(written, p)
    /\ cpc' = "put_meta"
    /\ cres' = NoResult
    /\ atCall' = <<meta, jfile>>
    /\ cblock' = Null
    /\ UNCHANGED <<drawn, reader, dnVars>>

\* _mds_rpc returns to put_meta: RuntimeError unless resp["ok"]
put_meta_returns ==
    /\ cpc = "put_meta"
    /\ pc[ClientConn] = "done"
    /\ IF resp[ClientConn].ok
       THEN /\ cpc' = "done"
            /\ cres' = ReturnedNone
            /\ written' = IF creq.op = "write_file"
                          THEN store_put(written, creq.path, utf8_encode(creq.arg))
                          ELSE written
       ELSE /\ cpc' = "raised"
            /\ cres' = Raised("RuntimeError")
            /\ written' = written
    /\ mds_thread_ends
    /\ UNCHANGED <<creq, cblock, drawn, atCall, reader, dnVars>>

\* read_file(path): meta = self.get_meta(path)
call_read_file ==
    /\ ClientIdle
    /\ \E p \in Paths :
          /\ creq' = [op |-> "read_file", path |-> p, arg |-> <<>>]
          /\ mds_rpc(Request("get_meta", p, Null))
    /\ cpc' = "get_meta"
    /\ cres' = NoResult
    /\ atCall' = <<meta, jfile>>
    /\ cblock' = Null
    /\ UNCHANGED <<drawn, written, reader, dnVars>>

\* cmd_rm(c, path): meta = c.get_meta(path)
cmd_rm ==
    /\ ClientIdle
    /\ \E p \in Paths :
          /\ creq' = [op |-> "rm", path |-> p, arg |-> <<>>]
          /\ mds_rpc(Request("get_meta", p, Null))
    /\ cpc' = "get_meta"
    /\ cres' = NoResult
    /\ atCall' = <<meta, jfile>>
    /\ cblock' = Null
    /\ UNCHANGED <<drawn, written, reader, dnVars>>

\* get_meta returns resp["value"].  read_file: None without metadata, ""
\* without blocks, else self.read_block(blocks[0]).  cmd_rm: "file not
\* found" without metadata, else c.delete_file(path), an attribute
\* AegisClient does not have.
get_meta_returns ==
    /\ cpc = "get_meta"
    /\ pc[ClientConn] = "done"
    /\ LET value == resp[ClientConn].value
       IN IF IsNone(value)
          THEN /\ cpc' = "done"
               /\ cres' = ReturnedNone
               /\ UNCHANGED <<cblock, dnVars>>
          ELSE IF creq.op = "rm"
          THEN /\ cpc' = "raised"
               /\ cres' = Raised("AttributeError")
               /\ UNCHANGED <<cblock, dnVars>>
          ELSE IF value.blocks = <<>>
          THEN /\ cpc' = "done"
               /\ cres' = ReturnedStr(<<>>)
               /\ UNCHANGED <<cblock, dnVars>>
          ELSE /\ cblock' = value.blocks[1]
               /\ enter_read_block(ClientConn, value.blocks[1])
               /\ cpc' = "read_block"
               /\ cres' = cres
    /\ mds_thread_ends
    /\ UNCHANGED <<creq, drawn, atCall, written, reader>>

\* The DataNode's handle_request answers not_found, or data.decode("utf-8");
\* read_block returns None, or resp["data"].encode("utf-8"); read_file
\* returns None, or data.decode("utf-8").
read_block_returns ==
    /\ cpc = "read_block"
    /\ dpc[ClientConn] \in {"done", "raised"}
    /\ cpc' = IF dpc[ClientConn] = "raised" THEN "raised" ELSE "done"
    /\ cres' = IF dpc[ClientConn] = "raised" THEN Raised("EOFError")
               ELSE IF dres[ClientConn] = Absent THEN ReturnedNone
               ELSE LET served == utf8_decode(dres[ClientConn][2])
                    IN IF served.ok
                       THEN ReturnedStr(utf8_decode(utf8_encode(served.text)).text)
                       ELSE Raised("EOFError")
    /\ dn_thread_ends
    /\ UNCHANGED <<creq, cblock, drawn, atCall, written, reader, mdsAll>>

\* client.write_bytes(target_path, data_bytes, ...) of app.py: an attribute
\* AegisClient does not have.
call_write_bytes ==
    /\ ClientIdle
    /\ \E p \in Paths, data \in ByteStrings :
          creq' = [op |-> "write_bytes", path |-> p, arg |-> data]
    /\ cpc' = "raised"
    /\ cres' = Raised("AttributeError")
    /\ atCall' = <<meta, jfile>>
    /\ cblock' = Null
    /\ UNCHANGED <<drawn, written, reader, mdsAll, dnVars>>

\* client.read_bytes(selected_path) of app.py: an attribute AegisClient does
\* not have.
call_read_bytes ==
    /\ ClientIdle
    /\ \E p \in Paths : creq' = [op |-> "read_bytes", path |-> p, arg |-> <<>>]
    /\ cpc' = "raised"
    /\ cres' = Raised("AttributeError")
    /\ atCall' = <<meta, jfile>>
    /\ cblock' = Null
    /\ UNCHANGED <<drawn, written, reader, mdsAll, dnVars>>

\* An OSError out of open, write, fsync or replace ends write_block: the
\* with block closes the file, and handle_client, which catches EOFError
\* alone, closes the connection.
w_oserror(t) ==
    /\ dpc[t] \in {"w_open", "w_write", "w_replace"}
    /\ dfd' = [dfd EXCEPT ![t] = 0]
    /\ ino' = Reclaim(dir, [dfd EXCEPT ![t] = 0], ino)
    /\ dpos' = [dpos EXCEPT ![t] = 0]
    /\ dpc' = [dpc EXCEPT ![t] = "raised"]
    /\ dres' = [dres EXCEPT ![t] = Returned("OSError")]
    /\ UNCHANGED <<dir, dreq, seen, lastPut, mdsAll, clVars>>

\* ------------------------------------------------------------- SpecClient
\* One client, one call at a time, against a running MDS and DataNode; the
\* servers' handler threads run statement by statement.
NextClient ==
    \/ from_config
    \/ call_write_file
    \/ call_put_meta
    \/ call_read_file
    \/ cmd_rm
    \/ call_write_bytes
    \/ call_read_bytes
    \/ store_block_returns
    \/ put_meta_returns
    \/ get_meta_returns
    \/ read_block_returns
    \/ write_block(ClientConn)
    \/ w_oserror(ClientConn)
    \/ read_block(ClientConn)
    \/ handle_put_meta(ClientConn)
    \/ handle_get_meta(ClientConn)
    \/ mutation_step(ClientConn)
    \/ send(ClientConn)

SpecClient == InitFresh /\ [][NextClient]_vars

\* --------------------------------------------------------------- SpecRead
\* The handler thread, of the MDS and of the DataNode, that serves the
\* connections of the second client: each server starts one thread per
\* connection.
ReaderConn == 2

ReaderIdle == reader.pc \in {"idle", "done", "raised"}

\* What read_file finds a path to hold: nothing, or the bytes of a
\* write_file that has returned.
ContentOf(p) == IF p \in DOMAIN written THEN Bytes(written[p]) ELSE Absent

\* The content of the write_file of path p in progress, if there is one.
BeingWritten(p) ==
    IF cpc \in {"store_block", "put_meta"} /\ creq.op = "write_file" /\ creq.path = p
    THEN {Bytes(utf8_encode(creq.arg))}
    ELSE {}

\* The second client calls read_file(path): meta = self.get_meta(path); the
\* MDS starts a handler thread whose conn.recv() returns the request.
reader_read_file ==
    /\ ReaderIdle
    /\ mdsUp
    /\ pc[ReaderConn] = "idle"
    /\ dpc[ReaderConn] = "idle"
    /\ \E p \in Paths :
          /\ reader' = [pc |-> "get_meta", path |-> p,
                        ok |-> {ContentOf(p)} \cup BeingWritten(p), res |-> NoResult]
          /\ req' = [req EXCEPT ![ReaderConn] = Request("get_meta", p, Null)]
    /\ pc' = [pc EXCEPT ![ReaderConn] = "handle"]
    /\ UNCHANGED <<mdsVars, txid, loaded, resp, histVars, dnVars>>
    /\ UNCHANGED <<cpc, creq, cblock, cres, drawn, atCall, written>>

\* get_meta returns resp["value"] to the second client's read_file: None
\* without metadata, "" without blocks, else self.read_block(blocks[0]);
\* the MDS handler thread has ended.
reader_get_meta_returns ==
    /\ reader.pc = "get_meta"
    /\ pc[ReaderConn] = "done"
    /\ LET value == resp[ReaderConn].value
       IN IF IsNone(value)
          THEN /\ reader' = [reader EXCEPT !.pc = "done", !.res = ReturnedNone]
               /\ UNCHANGED dnVars
          ELSE IF value.blocks = <<>>
          THEN /\ reader' = [reader EXCEPT !.pc = "done", !.res = ReturnedStr(<<>>)]
               /\ UNCHANGED dnVars
          ELSE /\ reader' = [reader EXCEPT !.pc = "read_block"]
               /\ enter_read_block(ReaderConn, value.blocks[1])
    /\ pc' = [pc EXCEPT ![ReaderConn] = "idle"]
    /\ req' = [req EXCEPT ![ReaderConn] = NoReq]
    /\ resp' = [resp EXCEPT ![ReaderConn] = NoResp]
    /\ UNCHANGED <<mdsVars, txid, loaded, histVars>>
    /\ UNCHANGED <<cpc, creq, cblock, cres, drawn, atCall, written>>

\* The DataNode answers not_found, or data.decode("utf-8"); read_block
\* returns None, or resp["data"].encode("utf-8"); the second client's
\* read_file returns None, or data.decode("utf-8"), or raises the EOFError
\* of a connection closed by a handler thread that died.
reader_read_block_returns ==
    /\ reader.pc = "read_block"
    /\ dpc[ReaderConn] \in {"done", "raised"}
    /\ reader' =
          IF dpc[ReaderConn] = "raised"
          THEN [reader EXCEPT !.pc = "raised", !.res = Raised("EOFError")]
          ELSE IF dres[ReaderConn] = Absent
          THEN [reader EXCEPT !.pc = "done", !.res = ReturnedNone]
          ELSE LET served == utf8_decode(dres[ReaderConn][2])
               IN IF served.ok
                  THEN [reader EXCEPT !.pc = "done",
                           !.res = ReturnedStr(utf8_decode(utf8_encode(served.text)).text)]
                  ELSE [reader EXCEPT !.pc = "raised", !.res = Raised("EOFError")]
    /\ dpc' = [dpc EXCEPT ![ReaderConn] = "idle"]
    /\ dreq' = [dreq EXCEPT ![ReaderConn] = NoCall]
    /\ dres' = [dres EXCEPT ![ReaderConn] = Returned("none")]
    /\ seen' = [seen EXCEPT ![ReaderConn] = {}]
    /\ UNCHANGED <<dir, ino, dfd, dpos, lastPut, mdsAll>>
    /\ UNCHANGED <<cpc, creq, cblock, cres, drawn, atCall, written>>

\* One client calls write_file, a second client calls read_file, each one
\* call at a time, in parallel; the servers' handler threads run statement
\* by statement; no block is deleted.
NextRead ==
    \/ from_config
    \/ call_write_file
    \/ store_block_returns
    \/ put_meta_returns
    \/ write_block(ClientConn)
    \/ w_oserror(ClientConn)
    \/ handle_put_meta(ClientConn)
    \/ mutation_step(ClientConn)
    \/ send(ClientConn)
    \/ reader_read_file
    \/ handle_get_meta(ReaderConn)
    \/ send(ReaderConn)
    \/ reader_get_meta_returns
    \/ read_block(ReaderConn)
    \/ reader_read_block_returns

SpecRead == InitFresh /\ [][NextRead]_vars

\* -------------------------------------------------------------- SpecDNSeq
\* One caller uses DataNodeStorage, one call at a time, on any block.
seq_write_block ==
    /\ \E b \in BlockIds, d \in Datas : enter_write_block(Caller, b, d)
    /\ UNCHANGED <<mdsAll, clVars>>

seq_read_block ==
    /\ \E b \in BlockIds : enter_read_block(Caller, b)
    /\ UNCHANGED <<mdsAll, clVars>>

seq_delete_block ==
    /\ \E b \in BlockIds : delete_block_of(Caller, b)
    /\ UNCHANGED <<mdsAll, clVars>>

NextDNSeq ==
    \/ seq_write_block
    \/ write_block(Caller)
    \/ seq_read_block
    \/ read_block(Caller)
    \/ seq_delete_block

SpecDNSeq == InitFresh /\ [][NextDNSeq]_vars

\* ---------------------------------------------------------------- SpecRpc
\* The requests a client sends to the MDS: those of ServerRequests, the
\* list_meta of the protocol, and put_meta and get_meta with empty args.
RpcMdsRequests ==
    ServerRequests
    \cup {Request("list_meta", Null, Null)}
    \cup {Request("put_meta", Null, Null), Request("get_meta", Null, Null)}

\* handle_request of the MDS: path = args["path"] raises KeyError for args
\* without it.  handle_client catches EOFError alone: its finally closes
\* the connection and the thread ends with the exception, nothing sent.
handle_keyerror(t) ==
    /\ pc[t] = "handle"
    /\ req[t].op \in {"put_meta", "get_meta"}
    /\ req[t].path = Null
    /\ pc' = [pc EXCEPT ![t] = "raised"]
    /\ UNCHANGED <<mdsVars, req, txid, loaded, resp, histVars>>
    /\ UNCHANGED <<dnVars, clVars>>

\* No exchange is in progress on either server.
RpcIdle == pc[ClientConn] = "idle" /\ dpc[ClientConn] = "idle"

\* The client connects to the MDS and sends a request.
rpc_mds_send ==
    /\ RpcIdle
    /\ \E r \in RpcMdsRequests :
          /\ (r.op = "put_meta" /\ r.path # Null) => TxStarted < MaxServerTxid
          /\ mds_rpc(r)
    /\ UNCHANGED <<dnVars, clVars>>

\* The client's conn.recv() returns the response of the MDS, or raises
\* EOFError on the connection of a handler thread that died; conn.close().
rpc_mds_recv ==
    /\ pc[ClientConn] \in {"done", "raised"}
    /\ lastOk' = IF pc[ClientConn] = "done" /\ req[ClientConn].op = "put_meta"
                 THEN store_put(lastOk, req[ClientConn].path, req[ClientConn].value)
                 ELSE lastOk
    /\ pc' = [pc EXCEPT ![ClientConn] = "idle"]
    /\ req' = [req EXCEPT ![ClientConn] = NoReq]
    /\ txid' = [txid EXCEPT ![ClientConn] = 0]
    /\ loaded' = [loaded EXCEPT ![ClientConn] = 0]
    /\ resp' = [resp EXCEPT ![ClientConn] = NoResp]
    /\ UNCHANGED <<mdsVars, boots, journalOnly>>
    /\ UNCHANGED <<dnVars, clVars>>

\* The text of the "data" argument of a store_block request: "A" and
\* "\u00e9".
RpcTexts == {<<65>>, <<233>>}

\* The ops of a DataNode request that make no call of the block store.
DnOtherOps == {"ping", "list_blocks"}

DnResp(ok, data, error, msg) == [ok |-> ok, data |-> data, error |-> error, msg |-> msg]

\* A handle_request that answers every read_block with ok.
dn_response_always_ok(t) ==
    DnResp(TRUE, IF dreq[t].op = "read_block" /\ dres[t] # Absent
                 THEN utf8_decode(dres[t][2]).text ELSE <<>>, <<>>, Null)

\* What handle_request of the DataNode returns once the call of the block
\* store has returned (dreq names the call: write_block for store_block).
dn_response(t) ==
    IF dreq[t].op = "ping" THEN DnResp(TRUE, <<>>, <<>>, "datanode_alive")
    ELSE IF dreq[t].op = "write_block" THEN DnResp(TRUE, <<>>, <<>>, Null)
    ELSE IF dreq[t].op = "read_block"
    THEN IF dres[t] = Absent THEN DnResp(FALSE, <<>>, <<"not_found">>, Null)
         ELSE DnResp(TRUE, utf8_decode(dres[t][2]).text, <<>>, Null)
    ELSE IF dreq[t].op = "delete_block" THEN DnResp(TRUE, <<>>, <<>>, Null)
    ELSE DnResp(FALSE, <<>>, <<"unknown_op", dreq[t].op>>, Null)

\* handle_request of the DataNode, op "ping" or an op it does not know: the
\* response is built without a call of the block store.
dn_handle_other(t, op) ==
    /\ dreq' = [dreq EXCEPT ![t] = [op |-> op, block_id |-> Null, data |-> <<>>]]
    /\ dpc' = [dpc EXCEPT ![t] = "done"]
    /\ dres' = [dres EXCEPT ![t] = Returned("none")]
    /\ seen' = [seen EXCEPT ![t] = {}]
    /\ UNCHANGED <<dir, ino, dfd, dpos, lastPut>>

\* handle_request of the DataNode: block_id = args["block_id"] raises
\* KeyError for args without it; the thread ends, nothing sent.
dn_handle_keyerror(t, op) ==
    /\ dreq' = [dreq EXCEPT ![t] = [op |-> op, block_id |-> Null, data |-> <<>>]]
    /\ dpc' = [dpc EXCEPT ![t] = "raised"]
    /\ dres' = [dres EXCEPT ![t] = Returned("KeyError")]
    /\ seen' = [seen EXCEPT ![t] = {}]
    /\ UNCHANGED <<dir, ino, dfd, dpos, lastPut>>

\* The client connects to the DataNode and sends a request; the handler
\* thread's conn.recv() returns it and handle_request begins.
rpc_dn_send ==
    /\ RpcIdle
    /\ \/ \E b \in BlockIds, text \in RpcTexts :
             enter_write_block(ClientConn, b, utf8_encode(text))
       \/ \E b \in BlockIds : enter_read_block(ClientConn, b)
       \/ \E b \in BlockIds : delete_block_of(ClientConn, b)
       \/ \E op \in DnOtherOps : dn_handle_other(ClientConn, op)
       \/ \E op \in {"write_block", "read_block", "delete_block"} :
             dn_handle_keyerror(ClientConn, op)
    /\ UNCHANGED <<mdsAll, clVars>>

\* The client's conn.recv() returns the response of the DataNode, or raises
\* EOFError; conn.close().
rpc_dn_recv ==
    /\ dpc[ClientConn] \in {"done", "raised"}
    /\ dn_thread_ends
    /\ UNCHANGED <<mdsAll, clVars>>

\* One client, one request at a time, against a running MDS and DataNode.
NextRpc ==
    \/ from_config
    \/ rpc_mds_send
    \/ handle_ping(ClientConn)
    \/ handle_put_meta(ClientConn)
    \/ handle_get_meta(ClientConn)
    \/ handle_unknown(ClientConn)
    \/ handle_keyerror(ClientConn)
    \/ mutation_step(ClientConn)
    \/ send(ClientConn)
    \/ rpc_mds_recv
    \/ rpc_dn_send
    \/ write_block(ClientConn)
    \/ read_block(ClientConn)
    \/ rpc_dn_recv

SpecRpc == InitFresh /\ [][NextRpc]_vars

\* ================================================================ claims
\* Helpers of the claims, stated on the journal file alone.
HasOp(recs, t, op) == \E i \in DOMAIN recs : recs[i].txid = t /\ recs[i].op = op

TxidsOf(recs) == {recs[i].txid : i \in DOMAIN recs}

WithoutTx(recs, t) == SelectSeq(recs, LAMBDA r : r.txid # t)

\* The APPLY records on path k of transactions with a COMMIT and no ABORT.
DurableApplies(recs, k) ==
    {i \in DOMAIN recs :
        /\ recs[i].op = "APPLY"
        /\ recs[i].key = k
        /\ recs[i].action \in {"put", "delete"}
        /\ HasOp(recs, recs[i].txid, "COMMIT")
        /\ ~HasOp(recs, recs[i].txid, "ABORT")}

\* i is replayed before j: smaller txid, or the same txid and earlier in the file.
ReplayedBefore(recs, i, j) ==
    \/ recs[i].txid < recs[j].txid
    \/ recs[i].txid = recs[j].txid /\ i < j

LastDurableApply(recs, k) ==
    CHOOSE i \in DurableApplies(recs, k) :
        \A j \in DurableApplies(recs, k) : j = i \/ ReplayedBefore(recs, j, i)

\* What the fold over the durable transactions in txid order leaves at path k.
FoldValue(recs, k) ==
    IF DurableApplies(recs, k) = {} THEN Null
    ELSE LET a == recs[LastDurableApply(recs, k)]
         IN IF a.action = "put" THEN a.value ELSE Null

\* C1 Recovery soundness: after start-up over any journal the metadata
\* mapping is the fold of the APPLY payloads of the committed, non-aborted
\* txids taken in ascending txid order, each txid's payloads in file order:
\* every path holds what the last such payload on it left (a put its value,
\* a delete nothing), and no other path is present.
C1_RecoverySoundness ==
    mdsUp =>
        /\ DOMAIN meta \subseteq Paths
        /\ \A k \in Paths :
              /\ (k \in DOMAIN meta) <=> (FoldValue(iter_records(jfileExists, jfile), k) # Null)
              /\ store_get(meta, k) = FoldValue(iter_records(jfileExists, jfile), k)

\* The replay order decides: txid 2 commits its put on /a before txid 1 logs
\* and commits its own, and the recovered value is txid 2's.
C1_Witness ==
    /\ mdsUp
    /\ Len(jfile) = 4
    /\ jfile[1] = ApplyRecord(2, "put", "/a", "B")
    /\ jfile[2] = CommitRecord(2)
    /\ jfile[3] = ApplyRecord(1, "put", "/a", "A")
    /\ jfile[4] = CommitRecord(1)
    /\ store_get(meta, "/a") = "B"

\* C2 Uncommitted isolation: a txid with no COMMIT record has no effect on
\* the recovered metadata: recovery leaves the mapping it leaves over the
\* journal with that txid's records removed.
C2_UncommittedIsolation ==
    mdsUp =>
        \A t \in TxidsOf(jfile) :
            ~HasOp(jfile, t, "COMMIT") =>
                meta = recover_meta(jfileExists, WithoutTx(jfile, t))

\* An uncommitted put on /a logged before a committed put on /b: /a is
\* absent and /b is present after recovery.
C2_Witness ==
    /\ mdsUp
    /\ Len(jfile) >= 3
    /\ jfile[1] = ApplyRecord(1, "put", "/a", "A")
    /\ jfile[2] = ApplyRecord(2, "put", "/b", "A")
    /\ jfile[3] = CommitRecord(2)
    /\ ~HasOp(jfile, 1, "COMMIT")
    /\ ~HasOp(jfile, 1, "ABORT")
    /\ "/a" \notin DOMAIN meta
    /\ store_get(meta, "/b") = "A"

\* C4 ABORT wins: a txid with an ABORT record anywhere in the journal is not
\* applied by recovery, with or without a COMMIT record of the same txid:
\* recovery leaves the mapping it leaves with that txid's records removed.
C4_AbortWins ==
    mdsUp =>
        \A t \in TxidsOf(jfile) :
            HasOp(jfile, t, "ABORT") =>
                meta = recover_meta(jfileExists, WithoutTx(jfile, t))

\* ABORT logged before the COMMIT of the same txid, whose put is dropped.
C4_Witness ==
    /\ mdsUp
    /\ Len(jfile) >= 3
    /\ jfile[1] = ApplyRecord(1, "put", "/a", "A")
    /\ jfile[2] = AbortRecord(1)
    /\ jfile[3] = CommitRecord(1)
    /\ "/a" \notin DOMAIN meta

\* The largest txid a record of the file carries, 0 for no record.
MaxPresent(recs) ==
    IF recs = <<>> THEN 0
    ELSE CHOOSE m \in TxidsOf(recs) : \A t \in TxidsOf(recs) : t <= m

\* C6 Monotonic txids across restarts: the txid a Journal over an existing
\* file hands out next is 1 + the largest txid of any record of the file,
\* whatever the records' ops and order, and 1 for a missing or empty file;
\* so no txid in the file is handed out again.
C6_NextTxidAboveAll ==
    mdsUp =>
        /\ next_txid = MaxPresent(iter_records(jfileExists, jfile)) + 1
        /\ \A i \in DOMAIN jfile : jfile[i].txid < next_txid

\* The largest txid is carried by a COMMIT in the middle of the file and by
\* no BEGIN; the first BEGIN of the new process carries the txid above it.
C6_Witness ==
    /\ mdsUp
    /\ Len(jfile) = 4
    /\ jfile[1] = BeginRecord(1, "put", "/a")
    /\ jfile[2] = CommitRecord(2)
    /\ jfile[3] = CommitRecord(1)
    /\ jfile[4] = BeginRecord(3, "put", "/b")
    /\ next_txid = 4

\* C3 Committed durability: whenever an MDSState has been constructed with
\* the snapshot file missing, so from the journal alone, and no call is in
\* progress, every path holds the value of the last put_metadata that
\* returned on it, and no entry if the last returned mutation of the path
\* was delete_metadata; across any number of stops and restarts.
C3_CommittedDurability ==
    (mdsUp /\ journalOnly /\ pc[Caller] = "idle") =>
        /\ meta = lastOk
        /\ \A p \in Paths : store_get(meta, p) = store_get(lastOk, p)

\* Three returned mutations (put /a B, put /b A, delete /b) and at least two
\* start-ups, the last one without a snapshot file: /a holds B, /b is absent.
C3_Witness ==
    /\ mdsUp
    /\ journalOnly
    /\ boots >= 2
    /\ pc[Caller] = "idle"
    /\ Len(jfile) = 9
    /\ jfile[2] = ApplyRecord(1, "put", "/a", "B")
    /\ jfile[5] = ApplyRecord(2, "put", "/b", "A")
    /\ jfile[8] = ApplyRecord(3, "delete", "/b", Null)
    /\ jfile[9] = CommitRecord(3)
    /\ store_get(meta, "/a") = "B"
    /\ "/b" \notin DOMAIN meta

\* C5 Monotonic txids within a process: the txids of the BEGIN records of
\* the journal one MDS process writes are strictly increasing in file order,
\* also when handler threads serve the requests in parallel.
C5_BeginTxidsIncreasing ==
    \A i, j \in DOMAIN jfile :
        (i < j /\ jfile[i].op = "BEGIN" /\ jfile[j].op = "BEGIN") =>
            jfile[i].txid < jfile[j].txid

\* The threads between a transaction's first journal append and its COMMIT.
InTransaction == {t \in Handlers : pc[t] \in {"log_begin", "log_apply", "mutate", "save", "commit"}}

\* C7 MDS mutations are serialized: BEGIN, APPLY, the in-memory mutation,
\* the snapshot save and COMMIT of a transaction are one critical section:
\* at most one handler is inside it, and no record of another transaction
\* lies between a transaction's BEGIN and its COMMIT in the journal.
C7_MutationsSerialized ==
    /\ Cardinality(InTransaction) <= 1
    /\ \A i, k \in DOMAIN jfile :
          (i < k /\ jfile[i].op = "BEGIN" /\ jfile[k].op = "COMMIT"
                 /\ jfile[i].txid = jfile[k].txid) =>
              \A j \in i .. k : jfile[j].txid = jfile[i].txid

\* C8 Readers see only committed states: the value a get_meta request reads
\* for its path is the value the committed transactions of the journal give
\* the path at that moment, never one written by a transaction whose COMMIT
\* record is not in the journal yet.
C8_ReadersSeeCommitted ==
    [][\A t \in Handlers :
          (pc[t] = "handle" /\ req[t].op = "get_meta" /\ pc'[t] = "send") =>
              resp'[t].value = FoldValue(iter_records(jfileExists, jfile), req[t].path)]_vars

\* C9 Last-writer-wins on one path: once two put_meta requests for the same
\* path with different values have both been answered ok (and no third put
\* of the path is around), the path holds the value of the transaction with
\* the larger txid.
C9_LastWriterWins ==
    \A t1, t2 \in Handlers :
        (/\ pc[t1] = "done" /\ pc[t2] = "done"
         /\ req[t1].op = "put_meta" /\ req[t2].op = "put_meta"
         /\ resp[t1].ok = TRUE /\ resp[t2].ok = TRUE
         /\ req[t1].path = req[t2].path
         /\ req[t1].value # req[t2].value
         /\ txid[t1] < txid[t2]
         /\ \A t3 \in Handlers \ {t1, t2} :
               ~(req[t3].op = "put_meta" /\ req[t3].path = req[t1].path))
        => store_get(meta, req[t1].path) = req[t2].value

\* C10 Atomic block replace: with one write_block of a block in progress at
\* a time, a read_block that returns has returned what the block file held at
\* some moment between the call and the return: the bytes of before the
\* write or the bytes written, whole; never an empty or truncated file, and
\* absent only if the block was absent at such a moment.
C10_AtomicBlockReplace ==
    \A t \in DnThreads :
        (dpc[t] = "done" /\ dreq[t].op = "read_block") => dres[t] \in seen[t]

\* A read that began while the block held <<1, 2>> and ran while a
\* write_block of <<3, 4>> replaced it returns the new bytes, whole.
C10_Witness ==
    \E t \in DnThreads :
        /\ dpc[t] = "done"
        /\ dreq[t].op = "read_block"
        /\ seen[t] = {Bytes(<<1, 2>>), Bytes(<<3, 4>>)}
        /\ dres[t] = Bytes(<<3, 4>>)


\* C11: parallel write_block calls of one block with different data all
\* complete, and every read_block returns the complete data of one of the
\* writes, or no block: never a partial or mixed file.
CompleteBlocks == {Bytes(d) : d \in Datas} \cup {Absent}

\* What a completed read_block returned.
ReadsComplete ==
    \A t \in DnThreads :
        (dreq[t].op = "read_block" /\ dpc[t] = "done") => dres[t] \in CompleteBlocks

C11_ConcurrentWritersComplete ==
    /\ \A t \in DnThreads : dreq[t].op = "write_block" => dpc[t] # "raised"
    /\ ReadsComplete


\* C12 Client write ordering: write_file sends put_meta only when every
\* block the FileMeta lists is stored on the DataNode with the payload; a
\* write_file whose store_block failed raises and leaves the MDS store and
\* journal as they were; the metadata of a returned write_file lists stored
\* blocks only.
C12_PutMetaAfterStores ==
    /\ (creq.op = "write_file" /\ cpc = "put_meta") =>
          /\ req[ClientConn].op = "put_meta"
          /\ \A i \in DOMAIN req[ClientConn].value.blocks :
                Holds(dir, ino, req[ClientConn].value.blocks[i])
                    = Bytes(utf8_encode(creq.arg))
    /\ (creq.op = "write_file" /\ cpc = "raised") => <<meta, jfile>> = atCall
    /\ \A p \in DOMAIN written :
          /\ p \in DOMAIN meta
          /\ \A i \in DOMAIN meta[p].blocks :
                Holds(dir, ino, meta[p].blocks[i]) # Absent

\* A first write_file failed in store_block (b1 was drawn and never stored,
\* the journal stayed empty); the put_meta of a second one is on its way.
C12_Witness ==
    /\ creq.op = "write_file"
    /\ cpc = "put_meta"
    /\ pc[ClientConn] = "handle"
    /\ req[ClientConn] = Request("put_meta", creq.path, FileMeta(<<"b2">>, 2))
    /\ drawn = {"b1", "b2"}
    /\ Holds(dir, ino, "b1") = Absent
    /\ Holds(dir, ino, "b2") = Bytes(<<195, 169>>)
    /\ jfile = <<>>

\* C13 Write/read round-trip: the client writes any byte string B to a
\* path, and a read of the path, with nothing else touching it in between,
\* returns exactly B.
C13_WriteReadRoundTrip ==
    /\ creq.op = "write_bytes" => cres.kind # "raised"
    /\ (creq.op \in {"read_file", "read_bytes"} /\ cpc \in {"done", "raised"}
        /\ creq.path \in DOMAIN written) =>
          /\ cres.kind = "str"
          /\ utf8_encode(cres.text) = written[creq.path]

\* C14 FileMeta shape: the metadata a returned write of B committed has
\* size = len(B) and ceil(len(B) / 4096) distinct blocks, each but the last
\* of 4096 bytes, the last of 1 to 4096; none for the empty B.
C14_FileMetaShape ==
    (creq.op = "write_file" /\ cpc = "done") =>
        LET B == utf8_encode(creq.arg)
            m == meta[creq.path]
            n == Len(m.blocks)
        IN /\ m.size = Len(B)
           /\ n = (Len(B) + 4095) \div 4096
           /\ \A i, j \in 1 .. n : i # j => m.blocks[i] # m.blocks[j]
           /\ \A i \in 1 .. n :
                 /\ Holds(dir, ino, m.blocks[i]) # Absent
                 /\ LET len == Len(Holds(dir, ino, m.blocks[i])[2])
                    IN IF i < n THEN len = 4096 ELSE len \in 1 .. 4096

\* C15 Client read of a missing or torn file: no metadata gives None, an
\* empty blocks list gives the empty content, and a listed block missing on
\* the DataNode gives None, not a part of the content and not an error.
C15_ReadMissingOrTorn ==
    (creq.op = "read_file" /\ cpc \in {"done", "raised"}) =>
        LET p == creq.path
        IN /\ p \notin DOMAIN meta => cres = ReturnedNone
           /\ (p \in DOMAIN meta /\ meta[p].blocks = <<>>) => cres = ReturnedStr(<<>>)
           /\ (p \in DOMAIN meta
               /\ \E i \in DOMAIN meta[p].blocks :
                     Holds(dir, ino, meta[p].blocks[i]) = Absent) => cres = ReturnedNone

\* C16 Cascading delete: when the delete of a path that had metadata ends,
\* the MDS has no metadata for the path and the DataNode none of the blocks
\* the metadata listed.
C16_CascadingDelete ==
    (creq.op = "rm" /\ cpc \in {"done", "raised"} /\ creq.path \in DOMAIN atCall[1]) =>
        /\ creq.path \notin DOMAIN meta
        /\ \A i \in DOMAIN atCall[1][creq.path].blocks :
              Holds(dir, ino, atCall[1][creq.path].blocks[i]) = Absent


\* C17 Truncated journal tail: a start-up over a journal whose last line a
\* stopped append left partly written succeeds, and the store it builds is
\* the one recovered from the complete records.
CompleteRecords(file) == SelectSeq(file, LAMBDA r : r.op # "torn")

C17_TornTailTolerated ==
    [][(~mdsUp /\ boots' = boots + 1) =>
          /\ mdsUp'
          /\ meta' = recover_meta(jfileExists, CompleteRecords(jfile))]_vars


\* C18 Crash between APPLY and COMMIT: every start-up leaves the store and
\* the snapshot file equal to what the returned mutations left, wherever
\* the process stopped and whatever the snapshot file held or whether it
\* existed: the effect of a transaction without COMMIT is in neither.
C18_CrashBeforeCommitDropped ==
    [][(~mdsUp /\ mdsUp') =>
          /\ meta' = lastOk
          /\ snapExists'
          /\ snap' = lastOk]_vars

\* After a restart: the journal ends with the APPLY of put /a B of a
\* transaction that has no COMMIT, behind the committed put /a A; the store
\* and the snapshot hold A.
C18_Witness ==
    /\ mdsUp
    /\ boots >= 2
    /\ pc[Caller] = "idle"
    /\ Len(jfile) = 5
    /\ jfile[2] = ApplyRecord(1, "put", "/a", "A")
    /\ jfile[3] = CommitRecord(1)
    /\ jfile[5] = ApplyRecord(2, "put", "/a", "B")
    /\ store_get(meta, "/a") = "A"
    /\ snapExists
    /\ store_get(snap, "/a") = "A"

\* C19 Block store write/read: a block holds what its last returned
\* write_block or delete_block left, whatever is done to other blocks or is
\* in progress; a returned write_block(id, d) leaves d in the block; a
\* returned read_block(id) gives what the block holds.
C19_BlockWriteRead ==
    /\ \A b \in BlockIds : Holds(dir, ino, b) = lastPut[b]
    /\ \A t \in DnThreads :
          /\ (dreq[t].op = "write_block" /\ dpc[t] = "done") =>
                Holds(dir, ino, dreq[t].block_id) = Bytes(dreq[t].data)
          /\ (dreq[t].op = "read_block" /\ dpc[t] = "done") =>
                dres[t] = lastPut[dreq[t].block_id]
          /\ dpc[t] # "raised"

\* read_block("b1") returned 3,4 while b2 holds 1,2.
C19_Witness ==
    /\ dreq[Caller] = [op |-> "read_block", block_id |-> "b1", data |-> <<>>]
    /\ dpc[Caller] = "done"
    /\ dres[Caller] = Bytes(<<3, 4>>)
    /\ Holds(dir, ino, "b2") = Bytes(<<1, 2>>)

\* C20 delete_block is idempotent: delete_block(id) returns without error,
\* leaves no block id, changes nothing where there was none, and leaves
\* every other block as it was; a read_block of a deleted block gives
\* nothing.
C20_DeleteIdempotent ==
    [][/\ \A b \in BlockIds :
             (/\ dpc[Caller] \in {"idle", "done", "raised"}
              /\ dpc'[Caller] \in {"done", "raised"}
              /\ dreq'[Caller] = [op |-> "delete_block", block_id |-> b, data |-> <<>>]) =>
                 /\ dpc'[Caller] = "done"
                 /\ dres'[Caller] = Returned("ok")
                 /\ Holds(dir', ino', b) = Absent
                 /\ Holds(dir, ino, b) = Absent => (dir' = dir /\ ino' = ino)
                 /\ \A c \in BlockIds \ {b} : Holds(dir', ino', c) = Holds(dir, ino, c)
       /\ (/\ dreq[Caller].op = "read_block"
           /\ dpc[Caller] # "done"
           /\ dpc'[Caller] = "done"
           /\ lastPut[dreq[Caller].block_id] = Absent) => dres'[Caller] = Absent]_vars

\* delete_block("b1") has returned; b1 is gone and b2 holds 1,2.
C20_Witness ==
    /\ dreq[Caller] = [op |-> "delete_block", block_id |-> "b1", data |-> <<>>]
    /\ dpc[Caller] = "done"
    /\ Holds(dir, ino, "b1") = Absent
    /\ Holds(dir, ino, "b2") = Bytes(<<1, 2>>)


\* C21 DataNode RPC results: a store_block request is answered ok and
\* leaves its data in the block; a read_block request is answered ok with
\* the data the block holds, or not_found for a block never stored or
\* deleted; a read_block leaves every block as it was.
C21_DataNodeRpcResults ==
    LET t == ClientConn
        b == dreq[t].block_id
    IN /\ (dreq[t].op = "write_block" /\ dpc[t] = "done") =>
             /\ dn_response(t).ok
             /\ Holds(dir, ino, b) = Bytes(dreq[t].data)
       /\ (dreq[t].op = "read_block" /\ dpc[t] = "done") =>
             IF lastPut[b] = Absent
             THEN dn_response(t) = DnResp(FALSE, <<>>, <<"not_found">>, Null)
             ELSE /\ dn_response(t).ok
                  /\ utf8_encode(dn_response(t).data) = lastPut[b][2]
       /\ (dreq[t].op = "read_block" /\ dpc[t] \in {"r_exists", "r_open", "r_read", "done"}) =>
             \A c \in BlockIds : Holds(dir, ino, c) = lastPut[c]

\* read_block of b1 is answered with the text "\u00e9", stored as the two
\* bytes 195, 169, while b2 has no block.
C21_Witness ==
    /\ dreq[ClientConn] = [op |-> "read_block", block_id |-> "b1", data |-> <<>>]
    /\ dpc[ClientConn] = "done"
    /\ lastPut["b1"] = Bytes(<<195, 169>>)
    /\ dn_response(ClientConn) = DnResp(TRUE, <<233>>, <<>>, Null)
    /\ Holds(dir, ino, "b2") = Absent

\* C22 MDS RPC put/get: a put_meta request is answered ok once the
\* journaled put is done (BEGIN, APPLY and COMMIT of its transaction are the
\* last records of the journal and the store holds the value); a get_meta
\* request is answered ok with the value of the last answered put_meta of
\* the path, and null for a path no put_meta was answered for.
C22_PutGetRpc ==
    LET t == ClientConn
        r == req[t]
        n == Len(jfile)
    IN /\ (pc[t] = "done" /\ r.op = "put_meta") =>
             /\ resp[t].ok = TRUE
             /\ n >= 3
             /\ jfile[n - 2] = BeginRecord(txid[t], "put", r.path)
             /\ jfile[n - 1] = ApplyRecord(txid[t], "put", r.path, r.value)
             /\ jfile[n] = CommitRecord(txid[t])
             /\ store_get(meta, r.path) = r.value
       /\ (pc[t] = "done" /\ r.op = "get_meta") =>
             /\ resp[t].ok = TRUE
             /\ resp[t].value = store_get(lastOk, r.path)

\* get_meta of /a is answered with B, the value of the second of two
\* answered put_meta requests of /a; /b was never put.
C22_Witness ==
    /\ pc[ClientConn] = "done"
    /\ req[ClientConn] = Request("get_meta", "/a", Null)
    /\ resp[ClientConn] = [ok |-> TRUE, value |-> "B", error |-> Null]
    /\ Len(jfile) = 6
    /\ jfile[2] = ApplyRecord(1, "put", "/a", "A")
    /\ jfile[5] = ApplyRecord(2, "put", "/a", "B")
    /\ "/b" \notin DOMAIN lastOk

\* C23 MDS RPC delete: a delete_meta request is answered ok, and when it
\* is answered the journaled delete is done: the journal ends with the
\* COMMIT of a delete of the path and the store has no entry for it.
C23_DeleteMetaRpc ==
    LET t == ClientConn
        n == Len(jfile)
    IN (pc[t] = "done" /\ req[t].op = "delete_meta") =>
          /\ resp[t].ok = TRUE
          /\ req[t].path \notin DOMAIN meta
          /\ n >= 3
          /\ jfile[n - 1] = ApplyRecord(txid[t], "delete", req[t].path, Null)
          /\ jfile[n] = CommitRecord(txid[t])

\* C24 Unknown operation: a request with an op the server does not support
\* is answered {ok: false, error: "unknown_op:<name>"} with the op name of
\* the request, by the MDS and by the DataNode, and handling it changes
\* neither the journal, the store, the snapshot nor any block file.
C24_UnknownOp ==
    [][LET t == ClientConn
       IN /\ (pc[t] \in {"handle", "send"}
              /\ req[t].op \notin {"ping", "put_meta", "get_meta"}) =>
                /\ pc'[t] \in {"send", "done"}
                /\ resp'[t].ok = FALSE
                /\ resp'[t].error = <<"unknown_op", req[t].op>>
                /\ UNCHANGED <<jfileExists, jfile, meta, snapExists, snap, dir, ino>>
          /\ (dpc[t] = "idle" /\ dpc'[t] # "idle" /\ dreq'[t].op \in DnOtherOps \ {"ping"}) =>
                /\ dpc'[t] = "done"
                /\ dn_response(t)' = DnResp(FALSE, <<>>, <<"unknown_op", dreq'[t].op>>, Null)
                /\ UNCHANGED <<jfileExists, jfile, meta, snapExists, snap, dir, ino>>]_vars

\* list_meta has been answered unknown_op:list_meta; the journal holds the
\* three records of the one put_meta before it and b1 its block.
C24_Witness ==
    /\ pc[ClientConn] = "done"
    /\ req[ClientConn].op = "list_meta"
    /\ resp[ClientConn].ok = FALSE
    /\ resp[ClientConn].error = <<"unknown_op", "list_meta">>
    /\ Len(jfile) = 3
    /\ DOMAIN meta = {"/a"}
    /\ Holds(dir, ino, "b1") = Bytes(<<65>>)

\* C25 One request, one response: whenever a server has closed the
\* connection of a request it received, it has sent a response on it
\* before; so also for a request without the args of its op, which is
\* answered with an {ok: false, error} response.
C25_OneResponse ==
    LET t == ClientConn
    IN /\ pc[t] \in {"done", "raised"} => pc[t] = "done"
       /\ (pc[t] = "done" /\ req[t].op \in {"put_meta", "get_meta"} /\ req[t].path = Null) =>
             resp[t].ok = FALSE
       /\ dpc[t] \in {"done", "raised"} => dpc[t] = "done"

C27_SnapshotTracksStore ==
    [][/\ (mdsUp' /\ pc'[Caller] = "idle") => (snapExists' /\ snap' = meta')
       /\ (snapExists' /\ (~snapExists \/ snap' # snap)) =>
             \/ ~mdsUp /\ mdsUp'
             \/ mdsUp /\ pc[Caller] = "save" /\ pc'[Caller] = "commit"]_vars

\* After a second start-up, which found no snapshot file, and a returned
\* delete of /b: store and snapshot hold /a alone.
C27_Witness ==
    /\ mdsUp
    /\ journalOnly
    /\ boots >= 2
    /\ pc[Caller] = "idle"
    /\ req[Caller].op = "delete_metadata"
    /\ Len(jfile) = 9
    /\ jfile[9] = CommitRecord(3)
    /\ DOMAIN meta = {"/a"}
    /\ snapExists
    /\ snap = meta

\* The journal holds an APPLY record with this payload.
HasApply(recs, action, key, value) ==
    \E i \in DOMAIN recs :
        /\ recs[i].op = "APPLY"
        /\ recs[i].action = action
        /\ recs[i].key = key
        /\ recs[i].value = value

\* C28 Write-ahead invariant: in every state of a running MDS each entry
\* (path, value) of the store is the payload of a put APPLY record of the
\* journal; a path a mutation removes from the store has a delete APPLY
\* record in the journal before; and when a thread mutates the store, the
\* APPLY record of its transaction is in the journal already.
C28_WriteAhead ==
    [][/\ mdsUp' => \A p \in DOMAIN meta' : HasApply(jfile', "put", p, meta'[p])
       /\ (mdsUp /\ mdsUp') =>
             \A p \in DOMAIN meta \ DOMAIN meta' : HasApply(jfile, "delete", p, Null)
       /\ \A t \in TxThreads :
             (pc[t] = "mutate" /\ pc'[t] = "save") =>
                \E i \in DOMAIN jfile :
                   jfile[i] = IF IsPut(req[t])
                              THEN ApplyRecord(txid[t], "put", req[t].path, req[t].value)
                              ELSE ApplyRecord(txid[t], "delete", req[t].path, Null)]_vars

\* Thread 1 has put /a = A into the store and thread 2 is about to put /b:
\* both APPLY records are in the journal, no COMMIT is.
C28_Witness ==
    /\ mdsUp
    /\ pc[1] = "save"
    /\ pc[2] = "mutate"
    /\ req[2] = Request("put_metadata", "/b", "A")
    /\ DOMAIN meta = {"/a"}
    /\ meta["/a"] = "A"
    /\ HasApply(jfile, "put", "/a", "A")
    /\ HasApply(jfile, "put", "/b", "A")
    /\ ~\E i \in DOMAIN jfile : jfile[i].op = "COMMIT"

\* a is a prefix of b.
IsPrefix(a, b) == Len(a) <= Len(b) /\ SubSeq(b, 1, Len(a)) = a

\* C29 Journal is append-only and order-preserving: every step of the MDS
\* leaves the journal's former content as a prefix of the new content;
\* iter_records yields the records in the order of the file; a start-up
\* (Journal construction and recovery) appends nothing and creates no file.
C29_AppendOnly ==
    [][/\ IsPrefix(jfile, jfile')
       /\ iter_records(jfileExists', jfile') = jfile'
       /\ (~mdsUp /\ mdsUp') => (jfile' = jfile /\ jfileExists' = jfileExists)]_vars

\* A second process has appended a whole transaction behind the three
\* records the first process left.
C29_Witness ==
    /\ mdsUp
    /\ boots >= 2
    /\ Len(jfile) = 6
    /\ jfile[1] = BeginRecord(1, "put", "/a")
    /\ jfile[3] = CommitRecord(1)
    /\ jfile[4] = BeginRecord(2, "delete", "/a")
    /\ jfile[6] = CommitRecord(2)

\* The ops of the records of txid t, in file order.
OpsOf(recs, t) ==
    LET own == SelectSeq(recs, LAMBDA r : r.txid = t)
    IN [i \in DOMAIN own |-> own[i].op]

\* C30 Transaction well-formedness: in every journal the mutation path
\* writes, under any interleaving of the threads and any stop, the records
\* of one txid are, in file order, one BEGIN, then APPLYs, then at most one
\* COMMIT or ABORT, which follows at least one APPLY: nothing of a txid
\* precedes its BEGIN, no txid has two BEGINs or two terminators.
C30_TransactionsWellFormed ==
    \A t \in TxidsOf(jfile) :
        LET ops == OpsOf(jfile, t)
        IN /\ ops[1] = "BEGIN"
           /\ \A i \in DOMAIN ops :
                 /\ i > 1 => ops[i] # "BEGIN"
                 /\ ops[i] \in {"COMMIT", "ABORT"} => (i = Len(ops) /\ i >= 3)

\* C31 Live state agrees with recovery: whenever the MDS runs and no
\* put_metadata / delete_metadata is in progress, the store equals the
\* mapping recovery computes from the journal as it is, whatever the
\* interleaving of the mutations that ran in parallel.
C31_LiveAgreesWithRecovery ==
    (mdsUp /\ \A t \in TxThreads : pc[t] = "idle") =>
        meta = recover_meta(jfileExists, jfile)

\* C32 Txids are unique per transaction: no two transactions, also of
\* threads that run in parallel, get the same txid from new_txid: no two
\* BEGIN records of the journal carry one txid, and no two threads hold one
\* txid for their transactions.
C32_TxidsUnique ==
    /\ \A i, j \in DOMAIN jfile :
          (i < j /\ jfile[i].op = "BEGIN" /\ jfile[j].op = "BEGIN") =>
              jfile[i].txid # jfile[j].txid
    /\ \A t1, t2 \in TxThreads :
          (t1 # t2 /\ pc[t1] \notin {"idle", "begin"} /\ pc[t2] \notin {"idle", "begin"}) =>
              txid[t1] # txid[t2]

\* C33 Read-only operations have no effect: every step of the handling of
\* a ping or a get_meta request, for a path that is present or absent, from
\* the receipt of the request to the close of the connection, appends no
\* journal record, hands out no txid and leaves the store and the snapshot
\* as they are.
ReadOnlyOps == {"ping", "get_meta"}

ReadOnlyStep(t) ==
    /\ pc'[t] # pc[t]
    /\ \/ req[t].op \in ReadOnlyOps /\ pc[t] \in {"handle", "send", "done"}
       \/ req'[t].op \in ReadOnlyOps /\ pc'[t] = "handle"

C33_ReadOnlyOps ==
    [][\A t \in Handlers :
          ReadOnlyStep(t) =>
              UNCHANGED <<jfileExists, jfile, next_txid, meta, snapExists, snap>>]_vars

\* A get_meta of the absent path /b was answered with null while the store
\* holds /a, written by one committed transaction.
C33_Witness ==
    /\ pc[ClientConn] = "done"
    /\ req[ClientConn].op = "get_meta"
    /\ req[ClientConn].path = "/b"
    /\ resp[ClientConn].ok
    /\ resp[ClientConn].value = Null
    /\ DOMAIN meta = {"/a"}
    /\ Len(jfile) = 3
    /\ next_txid = 2

\* C34 Failure before the in-memory mutation: no statement of
\* put_metadata / delete_metadata up to the append of APPLY changes the
\* store or the snapshot, so when the append of BEGIN or of APPLY fails the
\* call fails with both exactly as they were before the call; the failed
\* transaction has written nothing or its BEGIN alone, and a transaction
\* with no APPLY in the journal changes nothing of what a recovery computes
\* from it, now or from any longer journal.
BeforeMutation == {"begin", "bump_load", "bump_store", "log_begin", "log_apply"}

C36_ReadRacingDelete ==
    \A t \in DnThreads :
        (dreq[t].op = "read_block" /\ dpc[t] \in {"done", "raised"}) =>
            /\ dpc[t] = "done"
            /\ dres[t] \in CompleteBlocks

\* C35 Atomic file replacement as seen by readers: a read_file of a path
\* that runs in parallel with write_file calls of the path returns the
\* complete content the path had when the read began or the complete
\* content of a write_file that ran during the read; where the path had a
\* content before, it never returns a mixture, a part, or absent, and it
\* does not raise.
ReadResult(res) ==
    IF res.kind = "str" THEN Bytes(utf8_encode(res.text))
    ELSE IF res.kind = "None" THEN Absent
    ELSE <<"raised", res.error>>

C35_ReaderSeesOldOrNew ==
    reader.pc \in {"done", "raised"} => ReadResult(reader.res) \in reader.ok

\* read_file("/a") has returned the new content "\u00e9" of a write_file
\* that overwrites "" and has not returned yet: its put_meta is not
\* committed.
C35_Witness ==
    /\ reader.pc = "done"
    /\ reader.path = "/a"
    /\ reader.ok = {Bytes(<<>>), Bytes(<<195, 169>>)}
    /\ reader.res = ReturnedStr(<<233>>)
    /\ written = [p \in {"/a"} |-> <<>>]
    /\ cpc = "put_meta"
    /\ creq.path = "/a"
    /\ pc[ClientConn] = "commit"

====
